---- MODULE Spec2Model ----
(***************************************************************************)
(* Model of the graticule controller of mapbox-plugins                     *)
(* (src/src/components/GraticuleLayer.ts, src/src/components/util.ts).     *)
(*                                                                         *)
(* Coordinates are exact fixed-point numbers: an integer c stands for      *)
(* c / UnitsPerDegree degrees (half arc-seconds).  The interval is an      *)
(* integer i standing for i / IntervalDen of its unit (degrees for 'd',    *)
(* arc-minutes for 'm').  Screen points are integer pixels.                *)
(* Ids are pairs <<prefix, n>> standing for the string prefix + n.         *)
(* computeGrid is modelled twice: in this fixed-point arithmetic, for the  *)
(* controller's operations, and in binary64 Number arithmetic, for the     *)
(* calls of computeGrid on its own; FixedPointAgrees relates the two.      *)
(***************************************************************************)
EXTENDS Integers, Sequences, FiniteSets, TLC

VARIABLES
    showLabel, showTick, showBorder, showGrid,  \* visibility flags (public fields)
    intervalUnit, interval, bounds,             \* grid configuration (public fields)
    map,                                        \* this._map
    layerIDs,                                   \* this._layerIDs
    id,                                         \* util.ts module counter behind uniqueId()
    hostSources, hostLayers, hostImages,        \* per host: source, layer, image registries
    hostBearing,                                \* per host: current map rotation
    phase,                                      \* lifecycle: "Detached" / "Attached"
    result,                                     \* how the last controller call ended: "ok" or what it threw
    streak,                                     \* successive addLayers runs that returned normally with
                                                \* flags and view untouched in between, counted up to 2
    fired,                                      \* host error events fired during the last operation
    pastIds,                                    \* stable ids held in lifecycles already ended
    toggle,                                     \* progress of a flag off / update / on / update sequence
    other,                                      \* the fields of a second controller instance
    mine,                                       \* counter values uniqueId() returned to this instance
    call,                                       \* a call of a pure method: its name and arguments
    ret,                                        \* what that call returned, Null before it
    shell                                       \* the closure of the application shell: glayer, flag, timers

vars == <<showLabel, showTick, showBorder, showGrid, intervalUnit, interval, bounds,
          map, layerIDs, id, hostSources, hostLayers, hostImages, hostBearing,
          phase, result, streak, fired, pastIds, toggle, other, mine, call, ret, shell>>

\* the variables that only some specifications use
Aux == <<toggle, other, mine, call, ret, shell>>

ToggleAux == <<other, mine, call, ret, shell>>

----------------------------------------------------------------------------
(* Bounds of the model and representation constants *)

\* operations are not started once the id counter has passed this value
MaxId == 9

\* the same, when two instances share the counter
MaxPairId == 17

\* the same, in the application shell, where every update() draws 14 labels
MaxShellId == 80

\* the factors 60 and 3600 of computeGrid and formatDegree
MinutesPerDegree == 60

SecondsPerDegree == 3600

\* coordinate resolution: half arc-seconds
UnitsPerDegree == 2 * SecondsPerDegree

UnitsPerMinute == UnitsPerDegree \div MinutesPerDegree

UnitsPerSecond == UnitsPerDegree \div SecondsPerDegree

\* interval resolution: sixtieths of the unit
IntervalDen == MinutesPerDegree

\* null / undefined for object-valued fields
Null == <<>>

\* this._map when no host is bound
NoMap == "null"

\* the bound on the id counter that applies: other is Null unless there are two instances
IdLimit == IF shell # Null THEN MaxShellId ELSE IF other = Null THEN MaxId ELSE MaxPairId

Hosts == {"h1", "h2"}

Bearings == {0, 90}

KindSet == {"grid", "tick", "border", "label"}

Deg(d) == d * UnitsPerDegree

\* [[west, south], [east, north]] as LngLatBounds.convert reads it
MkBounds(w, s, e, n) == [west |-> w, south |-> s, east |-> e, north |-> n]

\* bounds used by the operations: [[120, 30], [120.5, 30.5]] and [[120.5, 31], [121, 31.4]]
BoundsChoices ==
    { MkBounds(Deg(120), Deg(30), Deg(120) + (UnitsPerDegree \div 2), Deg(30) + (UnitsPerDegree \div 2)),
      MkBounds(Deg(120) + (UnitsPerDegree \div 2), Deg(31), Deg(121), Deg(31) + ((2 * UnitsPerDegree) \div 5)) }

\* (interval, unit) pairs used by the operations; 'x' is an unsupported unit
IntervalArgs ==
    { <<30 * IntervalDen, "d">>, <<60 * IntervalDen, "d">>,
      <<60 * IntervalDen, "m">>, <<60 * IntervalDen, "x">> }

\* the flags that are reassigned after construction; the others keep their constructor value
ToggleKinds == {"grid", "label"}

----------------------------------------------------------------------------
(* util.ts *)

\* uniqueId(): returns id and post-increments it; this is the value returned
UniqueIdValue(n) == n

\* uniqueId() without the increment
UniqueIdNext_Stuck(n) == n

\* uniqueId(): the counter after the call
UniqueIdNext(n) == n + 1

----------------------------------------------------------------------------
(* Arithmetic helpers: Math.floor and Math.ceil of a quotient a / b, b > 0 *)

FloorDiv(a, b) == a \div b

CeilDiv(a, b) == -((-a) \div b)

----------------------------------------------------------------------------
(* computeGrid in fixed-point arithmetic: exact, and equal to the Number     *)
(* arithmetic of the code on the bounds and intervals the operations use    *)

\* for (let n = min; n <= max; n += step) push(line(n)): the values of n, in order
RECURSIVE GridLoop(_, _, _, _)
GridLoop(n, max, step, acc) ==
    IF n <= max THEN GridLoop(n + step, max, step, Append(acc, n)) ELSE acc

\* the unit 'd' branch: interval in degrees
GridDegree(b, iv) ==
    LET step == (iv * UnitsPerDegree) \div IntervalDen
        minX == CeilDiv(b.west * IntervalDen, UnitsPerDegree * iv) * step
        maxX == FloorDiv(b.east * IntervalDen, UnitsPerDegree * iv) * step
        minY == CeilDiv(b.south * IntervalDen, UnitsPerDegree * iv) * step
        maxY == FloorDiv(b.north * IntervalDen, UnitsPerDegree * iv) * step
        xs == GridLoop(minX, maxX, step, <<>>)
        ys == GridLoop(minY, maxY, step, <<>>)
    IN  [lngLines |-> [k \in 1..Len(xs) |-> << <<xs[k], b.south>>, <<xs[k], b.north>> >>],
         latLines |-> [k \in 1..Len(ys) |-> << <<b.west, ys[k]>>, <<b.east, ys[k]>> >>]]

\* the unit 'm' branch: bounds scaled by 60, interval in arc-minutes, n / 60 as coordinate;
\* n is kept in 1/IntervalDen arc-minutes, and n / 60 degrees is n * UnitsPerMinute / IntervalDen units
GridMinute(b, iv) ==
    LET minX == CeilDiv(b.west * IntervalDen, UnitsPerMinute * iv) * iv
        maxX == FloorDiv(b.east * IntervalDen, UnitsPerMinute * iv) * iv
        minY == CeilDiv(b.south * IntervalDen, UnitsPerMinute * iv) * iv
        maxY == FloorDiv(b.north * IntervalDen, UnitsPerMinute * iv) * iv
        xs == GridLoop(minX, maxX, iv, <<>>)
        ys == GridLoop(minY, maxY, iv, <<>>)
        ToUnits(n) == (n * UnitsPerMinute) \div IntervalDen
    IN  [lngLines |-> [k \in 1..Len(xs) |-> << <<ToUnits(xs[k]), b.south>>, <<ToUnits(xs[k]), b.north>> >>],
         latLines |-> [k \in 1..Len(ys) |-> << <<b.west, ToUnits(ys[k])>>, <<b.east, ToUnits(ys[k])>> >>]]

\* computeGrid() with the arc-minute branch as the else branch: no unit is refused
ComputeGrid_NoUnitCheck(b, iv, unit) ==
    IF b = Null THEN [thrown |-> "TypeError", lngLines |-> <<>>, latLines |-> <<>>]
    ELSE IF unit = "d" THEN [thrown |-> "none"] @@ GridDegree(b, iv)
    ELSE [thrown |-> "none"] @@ GridMinute(b, iv)

\* computeGrid(): [thrown, lngLines, latLines]; LngLatBounds.convert(null) is null and
\* null.getWest() throws, an unsupported unit throws
ComputeGrid(b, iv, unit) ==
    IF b = Null THEN [thrown |-> "TypeError", lngLines |-> <<>>, latLines |-> <<>>]
    ELSE IF unit = "d" THEN [thrown |-> "none"] @@ GridDegree(b, iv)
    ELSE IF unit = "m" THEN [thrown |-> "none"] @@ GridMinute(b, iv)
    ELSE [thrown |-> "UnsupportedUnit", lngLines |-> <<>>, latLines |-> <<>>]

----------------------------------------------------------------------------
(* JavaScript Number arithmetic: IEEE 754 binary64, round to nearest, ties to even.   *)
(* Natural numbers of any size are little-endian sequences of limbs below Base,       *)
(* without leading zero limbs; zero is <<>>.  A Number is [neg, m, e], standing for    *)
(* (-1)^neg * m * 2^e with m = <<>> (zero) or 2^52 <= m < 2^53.  Infinities, NaN and  *)
(* subnormal numbers do not occur for coordinates and intervals in degrees.           *)

\* bits per limb: a product of two limbs plus two limbs stays below 2^31
LimbBits == 15

Base == 2^LimbBits

\* significand bits of a Number
SignificandBits == 53

RECURSIVE IntBitLen(_)
IntBitLen(n) == IF n = 0 THEN 0 ELSE 1 + IntBitLen(n \div 2)

RECURSIVE BNorm(_)
BNorm(a) ==
    IF a = <<>> THEN a
    ELSE IF a[Len(a)] = 0 THEN BNorm(SubSeq(a, 1, Len(a) - 1))
    ELSE a

RECURSIVE BFromInt(_)
BFromInt(n) == IF n = 0 THEN <<>> ELSE <<n % Base>> \o BFromInt(n \div Base)

RECURSIVE BToInt(_)
BToInt(a) == IF a = <<>> THEN 0 ELSE a[1] + Base * BToInt(Tail(a))

BLimb(a, i) == IF i <= Len(a) THEN a[i] ELSE 0

\* -1, 0, 1 as a < b, a = b, a > b
BCmp(a, b) ==
    IF Len(a) # Len(b) THEN (IF Len(a) < Len(b) THEN -1 ELSE 1)
    ELSE LET F[i \in 0..Len(a)] ==
                 IF i = 0 THEN 0
                 ELSE IF a[i] < b[i] THEN -1
                 ELSE IF a[i] > b[i] THEN 1
                 ELSE F[i - 1]
         IN  F[Len(a)]

RECURSIVE BAddFrom(_, _, _, _)
BAddFrom(a, b, i, carry) ==
    IF i > Len(a) /\ i > Len(b) THEN (IF carry = 0 THEN <<>> ELSE <<carry>>)
    ELSE LET t == BLimb(a, i) + BLimb(b, i) + carry
         IN  <<t % Base>> \o BAddFrom(a, b, i + 1, t \div Base)

BAdd(a, b) == BAddFrom(a, b, 1, 0)

\* a - b for a >= b
RECURSIVE BSubFrom(_, _, _, _)
BSubFrom(a, b, i, borrow) ==
    IF i > Len(a) THEN <<>>
    ELSE LET t == a[i] - BLimb(b, i) - borrow
         IN  IF t < 0 THEN <<t + Base>> \o BSubFrom(a, b, i + 1, 1)
             ELSE <<t>> \o BSubFrom(a, b, i + 1, 0)

BSub(a, b) == BNorm(BSubFrom(a, b, 1, 0))

\* a * k for 0 <= k < Base
RECURSIVE BMulSmallFrom(_, _, _, _)
BMulSmallFrom(a, k, i, carry) ==
    IF i > Len(a) THEN (IF carry = 0 THEN <<>> ELSE <<carry>>)
    ELSE LET t == a[i] * k + carry
         IN  <<t % Base>> \o BMulSmallFrom(a, k, i + 1, t \div Base)

BMulSmall(a, k) == IF k = 0 THEN <<>> ELSE BMulSmallFrom(a, k, 1, 0)

\* a * Base^j
BShlLimbs(a, j) == IF a = <<>> THEN a ELSE [i \in 1..j |-> 0] \o a

RECURSIVE BMulFrom(_, _, _)
BMulFrom(a, b, i) ==
    IF i > Len(b) THEN <<>>
    ELSE BAdd(BShlLimbs(BMulSmall(a, b[i]), i - 1), BMulFrom(a, b, i + 1))

BMul(a, b) == BMulFrom(a, b, 1)

\* a * 2^s
BShl(a, s) == BShlLimbs(BMulSmall(a, 2^(s % LimbBits)), s \div LimbBits)

\* floor(a / 2^s)
BShr(a, s) ==
    LET j == s \div LimbBits
        r == s % LimbBits
        n == Len(a) - j
    IN  IF n <= 0 THEN <<>>
        ELSE BNorm([i \in 1..n |-> (a[j + i] \div 2^r) + (BLimb(a, j + i + 1) % 2^r) * 2^(LimbBits - r)])

\* the low s bits of a are all zero
BLowZero(a, s) == BShl(BShr(a, s), s) = a

BBitLen(a) == IF a = <<>> THEN 0 ELSE (Len(a) - 1) * LimbBits + IntBitLen(a[Len(a)])

\* bit i of a, bit 0 the lowest
BBit(a, i) == (BLimb(a, (i \div LimbBits) + 1) \div 2^(i % LimbBits)) % 2

\* the largest digit k below Base with k * d <= r, for r < Base * d, found bit by bit
RECURSIVE BDigitFrom(_, _, _, _)
BDigitFrom(r, d, bit, k) ==
    IF bit < 0 THEN k
    ELSE IF BCmp(BMulSmall(d, k + 2^bit), r) <= 0 THEN BDigitFrom(r, d, bit - 1, k + 2^bit)
    ELSE BDigitFrom(r, d, bit - 1, k)

\* [q, r] with floor(n / Base^(i-1)) = q * d + r and r < d: long division, limb i the lowest used
RECURSIVE BDivFrom(_, _, _)
BDivFrom(n, d, i) ==
    IF i > Len(n) THEN [q |-> <<>>, r |-> <<>>]
    ELSE LET p == BDivFrom(n, d, i + 1)
             r1 == BNorm(<<n[i]>> \o p.r)
             k == BDigitFrom(r1, d, LimbBits - 1, 0)
         IN  [q |-> <<k>> \o p.q, r |-> BSub(r1, BMulSmall(d, k))]

\* [q, r] with n = q * d + r and r < d, d not zero
BDivMod(n, d) == LET p == BDivFrom(n, d, 1) IN [q |-> BNorm(p.q), r |-> p.r]

NumberZero == [neg |-> FALSE, m |-> <<>>, e |-> 0]

\* the Number nearest to (-1)^neg * (n + x) * 2^e, where 0 < x < 1 if sticky and x = 0 if not;
\* with sticky, n has more than SignificandBits + 1 bits
RoundToNumber(neg, n, sticky, e) ==
    LET len == BBitLen(n)
        t == len - SignificandBits
    IN  IF n = <<>> THEN NumberZero
        ELSE IF t <= 0 THEN [neg |-> neg, m |-> BShl(n, -t), e |-> e + t]
        ELSE LET q == BShr(n, t)
                 half == BBit(n, t - 1) = 1
                 rest == sticky \/ ~BLowZero(n, t - 1)
                 odd == BBit(n, t) = 1
                 m1 == IF half /\ (rest \/ odd) THEN BAdd(q, <<1>>) ELSE q
             IN  IF BBitLen(m1) > SignificandBits
                 THEN [neg |-> neg, m |-> BShr(m1, 1), e |-> e + t + 1]
                 ELSE [neg |-> neg, m |-> m1, e |-> e + t]

\* the Number a decimal literal num / den denotes, den > 0 (what the parser does)
NumberOf(num, den) ==
    LET a == IF num < 0 THEN -num ELSE num
        s == SignificandBits + 2 + IntBitLen(den)
        d == BDivMod(BShl(BFromInt(a), s), BFromInt(den))
    IN  RoundToNumber(num < 0, d.q, d.r # <<>>, -s)

\* x + y
NumberAdd(x, y) ==
    IF x.m = <<>> THEN y
    ELSE IF y.m = <<>> THEN x
    ELSE LET e == IF x.e < y.e THEN x.e ELSE y.e
             a == BShl(x.m, x.e - e)
             b == BShl(y.m, y.e - e)
             c == BCmp(a, b)
         IN  IF x.neg = y.neg THEN RoundToNumber(x.neg, BAdd(a, b), FALSE, e)
             ELSE IF c = 0 THEN NumberZero
             ELSE IF c > 0 THEN RoundToNumber(x.neg, BSub(a, b), FALSE, e)
             ELSE RoundToNumber(y.neg, BSub(b, a), FALSE, e)

\* x * y
NumberMul(x, y) ==
    IF x.m = <<>> \/ y.m = <<>> THEN NumberZero
    ELSE RoundToNumber(x.neg # y.neg, BMul(x.m, y.m), FALSE, x.e + y.e)

\* x / y, y not zero
NumberDiv(x, y) ==
    IF x.m = <<>> THEN NumberZero
    ELSE LET s == SignificandBits + 3
             d == BDivMod(BShl(x.m, s), y.m)
         IN  RoundToNumber(x.neg # y.neg, d.q, d.r # <<>>, x.e - y.e - s)

\* x <= y
NumberLeq(x, y) ==
    LET Mag(a, b) == \* |a| <= |b|
            IF a.m = <<>> THEN TRUE
            ELSE IF b.m = <<>> THEN FALSE
            ELSE IF a.e # b.e THEN a.e < b.e
            ELSE BCmp(a.m, b.m) <= 0
    IN  IF x.m = <<>> /\ y.m = <<>> THEN TRUE
        ELSE IF x.neg /\ ~y.neg THEN TRUE
        ELSE IF ~x.neg /\ y.neg THEN y.m = <<>> /\ x.m = <<>>
        ELSE IF x.neg THEN Mag(y, x)
        ELSE Mag(x, y)

\* Math.floor(x) and Math.ceil(x) as integers, for |x| < 2^30
NumberIntPart(x) == IF x.m = <<>> \/ -x.e >= SignificandBits THEN 0 ELSE BToInt(BShr(x.m, -x.e))

NumberHasFraction(x) == x.m # <<>> /\ (-x.e >= SignificandBits \/ ~BLowZero(x.m, -x.e))

MathFloor(x) ==
    IF x.neg THEN -NumberIntPart(x) - (IF NumberHasFraction(x) THEN 1 ELSE 0)
    ELSE NumberIntPart(x)

MathCeil(x) ==
    IF x.neg THEN -NumberIntPart(x)
    ELSE NumberIntPart(x) + (IF NumberHasFraction(x) THEN 1 ELSE 0)

\* Math.abs(x)
MathAbs(x) == [x EXCEPT !.neg = FALSE]

\* x - y
NumberSub(x, y) == NumberAdd(x, [y EXCEPT !.neg = ~y.neg /\ y.m # <<>>])

\* x % k for x >= 0 and a whole number k > 0: the remainder is exact
NumberRem(x, k) ==
    IF x.m = <<>> THEN NumberZero
    ELSE IF x.e >= 0 THEN NumberOf(BToInt(BDivMod(BShl(x.m, x.e), BFromInt(k)).r), 1)
    ELSE RoundToNumber(FALSE, BDivMod(x.m, BShl(BFromInt(k), -x.e)).r, FALSE, x.e)

\* the fraction of |x| is at least one half
NumberHalfOrMore(x) == x.m # <<>> /\ x.e < 0 /\ BBit(x.m, -x.e - 1) = 1

\* the fraction of |x| is more than one half
NumberOverHalf(x) == NumberHalfOrMore(x) /\ ~BLowZero(x.m, -x.e - 1)

\* Math.round(x) as an integer, for |x| < 2^30: halves go up
MathRound(x) ==
    IF x.neg THEN -NumberIntPart(x) - (IF NumberOverHalf(x) THEN 1 ELSE 0)
    ELSE NumberIntPart(x) + (IF NumberHalfOrMore(x) THEN 1 ELSE 0)

----------------------------------------------------------------------------
(* computeGrid in Number arithmetic.  Its inputs are the decimal values the fixed-point *)
(* fields stand for: coordinate c is the Number nearest to c / UnitsPerDegree, interval *)
(* i the Number nearest to i / IntervalDen.                                             *)

CoordNumber(c) == NumberOf(c, UnitsPerDegree)

IntervalNumber(i) == NumberOf(i, IntervalDen)

\* for (let n = min; n <= max; n += step) push(n): the values pushed, in order
RECURSIVE NumberGridLoop(_, _, _, _)
NumberGridLoop(n, max, step, acc) ==
    IF NumberLeq(n, max) THEN NumberGridLoop(NumberAdd(n, step), max, step, Append(acc, n)) ELSE acc

\* Math.ceil(x / step) * step and Math.floor(x / step) * step
SnapUp(x, step) == NumberMul(NumberOf(MathCeil(NumberDiv(x, step)), 1), step)

SnapDown(x, step) == NumberMul(NumberOf(MathFloor(NumberDiv(x, step)), 1), step)

\* the unit 'd' branch
NumberGridDegree(b, iv) ==
    LET west == CoordNumber(b.west)
        east == CoordNumber(b.east)
        south == CoordNumber(b.south)
        north == CoordNumber(b.north)
        step == IntervalNumber(iv)
        xs == NumberGridLoop(SnapUp(west, step), SnapDown(east, step), step, <<>>)
        ys == NumberGridLoop(SnapUp(south, step), SnapDown(north, step), step, <<>>)
    IN  [lngLines |-> [k \in 1..Len(xs) |-> << <<xs[k], south>>, <<xs[k], north>> >>],
         latLines |-> [k \in 1..Len(ys) |-> << <<west, ys[k]>>, <<east, ys[k]>> >>]]

\* the unit 'm' branch: (x * 60) / interval, n / 60
NumberGridMinute(b, iv) ==
    LET west == CoordNumber(b.west)
        east == CoordNumber(b.east)
        south == CoordNumber(b.south)
        north == CoordNumber(b.north)
        step == IntervalNumber(iv)
        sixty == NumberOf(MinutesPerDegree, 1)
        xs == NumberGridLoop(SnapUp(NumberMul(west, sixty), step), SnapDown(NumberMul(east, sixty), step), step, <<>>)
        ys == NumberGridLoop(SnapUp(NumberMul(south, sixty), step), SnapDown(NumberMul(north, sixty), step), step, <<>>)
    IN  [lngLines |-> [k \in 1..Len(xs) |-> << <<NumberDiv(xs[k], sixty), south>>, <<NumberDiv(xs[k], sixty), north>> >>],
         latLines |-> [k \in 1..Len(ys) |-> << <<west, NumberDiv(ys[k], sixty)>>, <<east, NumberDiv(ys[k], sixty)>> >>]]

NumberComputeGrid(b, iv, unit) ==
    IF b = Null THEN [thrown |-> "TypeError", lngLines |-> <<>>, latLines |-> <<>>]
    ELSE IF unit = "d" THEN [thrown |-> "none"] @@ NumberGridDegree(b, iv)
    ELSE IF unit = "m" THEN [thrown |-> "none"] @@ NumberGridMinute(b, iv)
    ELSE [thrown |-> "UnsupportedUnit", lngLines |-> <<>>, latLines |-> <<>>]

----------------------------------------------------------------------------
(* GeoJSON values *)

EMPTY_GEOSJON == [type |-> "FeatureCollection", features |-> <<>>]

FeatureCollection(fs) == [type |-> "FeatureCollection", features |-> fs]

LineFeature(coords) ==
    [type |-> "Feature", properties |-> <<>>,
     geometry |-> [type |-> "LineString", coordinates |-> coords]]

PointFeature(props, coords) ==
    [type |-> "Feature", properties |-> props,
     geometry |-> [type |-> "Point", coordinates |-> coords]]

----------------------------------------------------------------------------
(* Host capabilities consumed by the controller (mapbox-gl Map).  A run   *)
(* record r carries the bound host's registries through one operation:    *)
(* [map, src, lyr, img, ids, next, fired, thrown, fault].                 *)

\* cos and sin are kept as whole numbers of 1/TrigDen
TrigDen == 5

\* A bearing is a multiple of 90 degrees or one of the angles of the 3-4-5 triangle in any
\* quadrant, named by its nearest degree: 37 for atan(3/4), 53 for atan(4/3), 127, 143
\* and so on. Its place in the tables below: 0, 37, 53, 90, 127, 143, 180, ... -> 1, 2, 3, ...
TrigIndex(b) == 3 * ((b % 360) \div 90) + ((b % 90) + 7) \div 30 + 1

\* TrigDen * cos and TrigDen * sin of the bearings 0, 37, 53, 90, 127, 143, 180, 217, 233,
\* 270, 307, 323
CosTable == << 5, 4, 3, 0, -3, -4, -5, -4, -3, 0, 3, 4 >>

SinTable == << 0, 3, 4, 5, 4, 3, 0, -3, -4, -5, -4, -3 >>

Cos(b) == CosTable[TrigIndex(b)]

Sin(b) == SinTable[TrigIndex(b)]

\* vec2.rotate(out, a, [0, 0], rad) of gl-matrix
Vec2Rotate(a, b) ==
    << (a[1] * Cos(b) - a[2] * Sin(b)) \div TrigDen, (a[1] * Sin(b) + a[2] * Cos(b)) \div TrigDen >>

\* map.project(lnglat): one pixel per coordinate unit, y grows downwards, view rotated by the bearing
Project(b, lnglat) == Vec2Rotate(<< lnglat[1], -lnglat[2] >>, 360 - (b % 360))

\* map.unproject(point): the inverse of Project
Unproject(b, point) == LET q == Vec2Rotate(point, b) IN << q[1], -q[2] >>

\* r.fault names the sub-layer whose id the host rejects during this operation: every
\* registry call that changes something under that id throws; "none" when the host works
Rejected(r, xid) == r.fault # "none" /\ r.ids # Null /\ xid = r.ids[r.fault]

HasSource(r, sid) == sid \in DOMAIN r.src

HasLayer(r, lid) == lid \in DOMAIN r.lyr

HasImage(r, iid) == iid \in DOMAIN r.img

\* map.addSource(id, {type: 'geojson', data}): throws when the id is taken
HostAddSource(r, sid, data) ==
    IF r.thrown # "none" THEN r
    ELSE IF Rejected(r, sid) THEN [r EXCEPT !.thrown = "HostError"]
    ELSE IF HasSource(r, sid) THEN [r EXCEPT !.thrown = "DuplicateSource"]
    ELSE [r EXCEPT !.src = (sid :> data) @@ r.src]

\* map.getSource(id).setData(data)
HostSetData(r, sid, data) ==
    IF r.thrown # "none" THEN r
    ELSE IF Rejected(r, sid) THEN [r EXCEPT !.thrown = "HostError"]
    ELSE IF ~HasSource(r, sid) THEN [r EXCEPT !.thrown = "TypeError"]
    ELSE [r EXCEPT !.src = (sid :> data) @@ r.src]

\* map.removeSource(id): throws when absent; a source that a layer still uses is kept
\* and an error event is fired instead
HostRemoveSource(r, sid) ==
    IF r.thrown # "none" THEN r
    ELSE IF Rejected(r, sid) THEN [r EXCEPT !.thrown = "HostError"]
    ELSE IF ~HasSource(r, sid) THEN [r EXCEPT !.thrown = "NoSuchSource"]
    ELSE IF \E l \in DOMAIN r.lyr : r.lyr[l].source = sid
         THEN [r EXCEPT !.fired = @ \cup {"SourceInUse"}]
    ELSE [r EXCEPT !.src = [k \in DOMAIN r.src \ {sid} |-> r.src[k]]]

\* map.addLayer(descriptor): an id already taken fires an error event and adds nothing
HostAddLayer(r, layer) ==
    IF r.thrown # "none" THEN r
    ELSE IF Rejected(r, layer.id) THEN [r EXCEPT !.thrown = "HostError"]
    ELSE IF HasLayer(r, layer.id) THEN [r EXCEPT !.fired = @ \cup {"DuplicateLayer"}]
    ELSE [r EXCEPT !.lyr = (layer.id :> layer) @@ r.lyr]

\* map.removeLayer(id): an absent id fires an error event
HostRemoveLayer(r, lid) ==
    IF r.thrown # "none" THEN r
    ELSE IF Rejected(r, lid) THEN [r EXCEPT !.thrown = "HostError"]
    ELSE IF ~HasLayer(r, lid) THEN [r EXCEPT !.fired = @ \cup {"NoSuchLayer"}]
    ELSE [r EXCEPT !.lyr = [k \in DOMAIN r.lyr \ {lid} |-> r.lyr[k]]]

\* map.addImage(id, bitmap): an id already taken fires an error event
HostAddImage(r, iid, bitmap) ==
    IF r.thrown # "none" THEN r
    ELSE IF HasImage(r, iid) THEN [r EXCEPT !.fired = @ \cup {"DuplicateImage"}]
    ELSE [r EXCEPT !.img = (iid :> bitmap) @@ r.img]

\* map.updateImage(id, bitmap)
HostUpdateImage(r, iid, bitmap) ==
    IF r.thrown # "none" THEN r
    ELSE IF ~HasImage(r, iid) THEN [r EXCEPT !.fired = @ \cup {"NoSuchImage"}]
    ELSE [r EXCEPT !.img = (iid :> bitmap) @@ r.img]

----------------------------------------------------------------------------
(* GraticuleLayer: configuration defaults *)

\* defaultOptions.tickLength, pixels
TickLength == 5

\* tickLength of the options the application shell constructs its controller with
ShellTickLength == 8

\* this.tickLength: the default, or the option of the application shell
ThisTickLength == IF shell = Null THEN TickLength ELSE ShellTickLength

\* defaultOptions.labelFormatter
LabelFormat == "second"

Show(kind) ==
    CASE kind = "grid" -> showGrid
      [] kind = "tick" -> showTick
      [] kind = "border" -> showBorder
      [] kind = "label" -> showLabel

\* mapbox layer type of a sub-layer, as passed to createLayer by addLayers
LayerType(kind) == IF kind = "label" THEN "symbol" ELSE "line"

----------------------------------------------------------------------------
(* createlabelFormatter: the label as the token sequence of the template string *)

FormatTag(value, isLng) ==
    IF isLng
    THEN (IF value > 0 THEN "E" ELSE IF value < 0 THEN "W" ELSE "")
    ELSE (IF value > 0 THEN "N" ELSE IF value < 0 THEN "S" ELSE "")

Abs(v) == IF v < 0 THEN -v ELSE v

\* Math.round(a / b) for a >= 0, b > 0: halves round up
RoundDiv(a, b) == (2 * a + b) \div (2 * b)

FormatDegree(num, isLng, labelFormat) ==
    LET tag == FormatTag(num, isLng)
        value == Abs(num)
        v1 == FloorDiv(value, UnitsPerDegree)
        v2 == FloorDiv((value - v1 * UnitsPerDegree) * MinutesPerDegree, UnitsPerDegree)
        v3 == RoundDiv((value - v1 * UnitsPerDegree) % (60 * UnitsPerSecond), UnitsPerSecond)
    IN  IF labelFormat = "degree" THEN << ToString(v1), "°", tag >>
        ELSE IF labelFormat = "minute" THEN << ToString(v1), "°", ToString(v2), "'", tag >>
        ELSE << ToString(v1), "°", ToString(v2), "'", ToString(v3), "\"", tag >>

CreatelabelFormatter(num, isLng, labelFormat) == FormatDegree(num, isLng, labelFormat)

\* formatTag that tells the axis only: E and N for every value other than 0
NumberFormatTag_Unsigned(value, isLng) ==
    IF value.m = <<>> THEN "" ELSE IF isLng THEN "E" ELSE "N"

\* formatTag on a Number
NumberFormatTag(value, isLng) ==
    LET pos == value.m # <<>> /\ ~value.neg
        neg == value.m # <<>> /\ value.neg
    IN  IF isLng
        THEN (IF pos THEN "E" ELSE IF neg THEN "W" ELSE "")
        ELSE (IF pos THEN "N" ELSE IF neg THEN "S" ELSE "")

\* formatDegree with the minutes rounded instead of floored
NumberFormatDegree_MinutesRounded(num, isLng, labelFormat) ==
    LET tag == NumberFormatTag(num, isLng)
        value == MathAbs(num)
        v1 == MathFloor(value)
        rest == NumberSub(value, NumberOf(v1, 1))
        v2 == MathRound(NumberMul(rest, NumberOf(MinutesPerDegree, 1)))
        v3 == MathRound(NumberRem(NumberMul(rest, NumberOf(SecondsPerDegree, 1)), 60))
    IN  IF labelFormat = "degree" THEN << ToString(v1), "°", tag >>
        ELSE IF labelFormat = "minute" THEN << ToString(v1), "°", ToString(v2), "'", tag >>
        ELSE << ToString(v1), "°", ToString(v2), "'", ToString(v3), "\"", tag >>

\* formatDegree in Number arithmetic: v1, v2 and v3 as the code computes them
NumberFormatDegree(num, isLng, labelFormat) ==
    LET tag == NumberFormatTag(num, isLng)
        value == MathAbs(num)
        v1 == MathFloor(value)
        rest == NumberSub(value, NumberOf(v1, 1))
        v2 == MathFloor(NumberMul(rest, NumberOf(MinutesPerDegree, 1)))
        v3 == MathRound(NumberRem(NumberMul(rest, NumberOf(SecondsPerDegree, 1)), 60))
    IN  IF labelFormat = "degree" THEN << ToString(v1), "°", tag >>
        ELSE IF labelFormat = "minute" THEN << ToString(v1), "°", ToString(v2), "'", tag >>
        ELSE << ToString(v1), "°", ToString(v2), "'", ToString(v3), "\"", tag >>

\* createlabelFormatter(num, isLng, labelFormat) on the decimal value the coordinate num stands for
NumberCreatelabelFormatter(num, isLng, labelFormat) ==
    NumberFormatDegree(NumberOf(num, UnitsPerDegree), isLng, labelFormat)

\* drawLabel: the bitmap is determined by the text (font, size and colour are fixed defaults)
DrawLabel(text) == [text |-> text]

MakeIconId(n) == << "graticule-icon-", UniqueIdValue(n) >>

----------------------------------------------------------------------------
(* Feature collections of the four sub-layers *)

CreateGridLinesSource(lngLines, latLines) ==
    IF Len(lngLines) = 0 \/ Len(latLines) = 0 THEN EMPTY_GEOSJON
    ELSE FeatureCollection([k \in 1..Len(lngLines) |-> LineFeature(lngLines[k])]
                           \o [k \in 1..Len(latLines) |-> LineFeature(latLines[k])])

\* the offsets at the bottom/top end of a longitude line and the left/right end of a latitude line
LngOffset(b, tickLen) == Vec2Rotate(<<0, tickLen>>, b)

LatOffset(b, tickLen) == Vec2Rotate(<<tickLen, 0>>, b)

\* createTickLine(lnglat, offset, xAxis): both branches add the offset to the projected point
CreateTickLine(b, lnglat, offset) ==
    LET point == Project(b, lnglat)
        lnglat2 == Unproject(b, << point[1] + offset[1], point[2] + offset[2] >>)
    IN  LineFeature(<< lnglat, lnglat2 >>)

\* the two pushes of one forEach iteration, for line k of lines
TickPair(b, item, off) ==
    << CreateTickLine(b, item[1], << -off[1], off[2] >>),
       CreateTickLine(b, item[2], << off[1], -off[2] >>) >>

RECURSIVE TickLoop(_, _, _, _)
TickLoop(b, lines, off, k) ==
    IF k > Len(lines) THEN <<>> ELSE TickPair(b, lines[k], off) \o TickLoop(b, lines, off, k + 1)

\* tickLen = tickLen || 5
OrDefault(tickLen) == IF tickLen = 0 THEN 5 ELSE tickLen

CreateTickLinesSource(lngLines, latLines, m, tickLen) ==
    IF Len(lngLines) = 0 \/ Len(latLines) = 0 \/ m = NoMap THEN EMPTY_GEOSJON
    ELSE LET b == hostBearing[m]
             len == OrDefault(tickLen)
         IN  FeatureCollection(TickLoop(b, lngLines, LngOffset(b, len), 1)
                               \o TickLoop(b, latLines, LatOffset(b, len), 1))

CreateBorderLinesSource(bnds) ==
    IF bnds = Null THEN EMPTY_GEOSJON
    ELSE FeatureCollection(<< LineFeature(<< <<bnds.west, bnds.south>>, <<bnds.east, bnds.south>>,
                                             <<bnds.east, bnds.north>>, <<bnds.west, bnds.north>>,
                                             <<bnds.west, bnds.south>> >>) >>)

\* createPoint(lnglat, offset, xAxis, textAnchor): [r, feature]; draws the label, takes a
\* fresh icon id and registers or updates the image on the host
CreatePoint(r, lnglat, offset, xAxis, textAnchor) ==
    LET b == hostBearing[r.map]
        point == Project(b, lnglat)
        isLng == ~xAxis
        rotate == IF xAxis THEN -90 ELSE 0
        num == IF xAxis THEN lnglat[2] ELSE lnglat[1]
        lnglat2 == Unproject(b, << point[1] + offset[1], point[2] + offset[2] >>)
        label == CreatelabelFormatter(num, isLng, LabelFormat)
        imageData == DrawLabel(label)
        iconId == MakeIconId(r.next)
        r1 == [r EXCEPT !.next = UniqueIdNext(r.next)]
        r2 == IF HasImage(r1, iconId) THEN HostUpdateImage(r1, iconId, imageData)
              ELSE HostAddImage(r1, iconId, imageData)
    IN  [r |-> r2,
         feature |-> PointFeature([label |-> label, rotate |-> rotate,
                                   anchor |-> textAnchor, icon |-> iconId], lnglat2)]

\* the createPoint calls in call order: [lnglat, offset, xAxis, anchor]
LabelCalls(lines, off, xAxis, first, second) ==
    LET Pair(item) == << [lnglat |-> item[1], offset |-> << -off[1], off[2] >>,
                          xAxis |-> xAxis, anchor |-> first],
                         [lnglat |-> item[2], offset |-> << off[1], -off[2] >>,
                          xAxis |-> xAxis, anchor |-> second] >>
        F[k \in 0..Len(lines)] == IF k = 0 THEN <<>> ELSE F[k - 1] \o Pair(lines[k])
    IN  F[Len(lines)]

RECURSIVE LabelLoop(_, _, _, _)
LabelLoop(r, calls, k, acc) ==
    IF k > Len(calls) THEN [r |-> r, data |-> FeatureCollection(acc)]
    ELSE LET c == CreatePoint(r, calls[k].lnglat, calls[k].offset, calls[k].xAxis, calls[k].anchor)
         IN  LabelLoop(c.r, calls, k + 1, Append(acc, c.feature))

\* createLabelPointsSource: [r, data]
CreateLabelPointsSource(r, lngLines, latLines, tickLen) ==
    IF Len(lngLines) = 0 \/ Len(latLines) = 0 \/ r.map = NoMap
    THEN [r |-> r, data |-> EMPTY_GEOSJON]
    ELSE LET b == hostBearing[r.map]
             len == OrDefault(tickLen)
         IN  LabelLoop(r, LabelCalls(lngLines, LngOffset(b, len), FALSE, "top", "bottom")
                          \o LabelCalls(latLines, LatOffset(b, len), TRUE, "bottom", "top"),
                       1, <<>>)

\* createLayer(id, type, style): the descriptor fields that identify the layer
CreateLayer(lid, type) == [id |-> lid, type |-> type, source |-> lid]

----------------------------------------------------------------------------
(* addLayers *)

\* initLayersId() without its guard: a new table on every call
InitLayersId_Always(r) ==
    [r EXCEPT !.ids = [grid |-> << "grid_", r.next >>, tick |-> << "tick_", r.next + 1 >>,
                       border |-> << "border_", r.next + 2 >>, label |-> << "label_", r.next + 3 >>],
              !.next = r.next + 4]

\* initLayersId() numbering the ids of every instance from 1 instead of drawing them from
\* the counter all instances share
InitLayersId_PerInstance(r) ==
    IF r.ids # Null THEN r
    ELSE [r EXCEPT !.ids = [grid |-> << "grid_", 1 >>, tick |-> << "tick_", 2 >>,
                            border |-> << "border_", 3 >>, label |-> << "label_", 4 >>]]

\* initLayersId(): four ids from four uniqueId() calls, only when the table is absent
InitLayersId(r) ==
    IF r.ids # Null THEN r
    ELSE LET n1 == r.next
             n2 == UniqueIdNext(n1)
             n3 == UniqueIdNext(n2)
             n4 == UniqueIdNext(n3)
         IN  [r EXCEPT !.ids = [grid |-> << "grid_", UniqueIdValue(n1) >>,
                                tick |-> << "tick_", UniqueIdValue(n2) >>,
                                border |-> << "border_", UniqueIdValue(n3) >>,
                                label |-> << "label_", UniqueIdValue(n4) >>],
                       !.next = UniqueIdNext(n4)]

\* the source part without the getSource check: always addSource
UpsertSource_AlwaysAdd(r, sid, data) == HostAddSource(r, sid, data)

\* the source part appending to the data of an existing source instead of replacing it
UpsertSource_Append(r, sid, data) ==
    IF HasSource(r, sid)
    THEN HostSetData(r, sid, FeatureCollection(r.src[sid].features \o data.features))
    ELSE HostAddSource(r, sid, data)

\* flag enabled, source part: replace the data of an existing source, else add the source
UpsertSource(r, sid, data) ==
    IF HasSource(r, sid) THEN HostSetData(r, sid, data) ELSE HostAddSource(r, sid, data)

\* flag enabled, layer part: add the layer unless the host has it
EnsureLayer(r, lid, type) ==
    IF r.thrown # "none" THEN r
    ELSE IF ~HasLayer(r, lid) THEN HostAddLayer(r, CreateLayer(lid, type))
    ELSE r

\* flag disabled: removeSource if the source is present, then removeLayer if the layer is present
RemoveSubLayer(r, lid) ==
    LET r1 == IF HasSource(r, lid) THEN HostRemoveSource(r, lid) ELSE r
    IN  IF r1.thrown # "none" THEN r1
        ELSE IF HasLayer(r1, lid) THEN HostRemoveLayer(r1, lid)
        ELSE r1

\* the feature collection of one enabled sub-layer: [r, data]
CreateSource(r, kind, lines, b) ==
    CASE kind = "grid" -> [r |-> r, data |-> CreateGridLinesSource(lines.lngLines, lines.latLines)]
      [] kind = "tick" -> [r |-> r, data |-> CreateTickLinesSource(lines.lngLines, lines.latLines,
                                                                   r.map, ThisTickLength)]
      [] kind = "border" -> [r |-> r, data |-> CreateBorderLinesSource(b)]
      [] kind = "label" -> CreateLabelPointsSource(r, lines.lngLines, lines.latLines, ThisTickLength)

\* one block of addLayers that adds the layer only together with a new source
SyncSubLayer_LayerWithSource(r, kind, lines, b) ==
    IF r.thrown # "none" THEN r
    ELSE IF Show(kind)
         THEN LET c == CreateSource(r, kind, lines, b)
              IN  IF r.map = NoMap THEN [c.r EXCEPT !.thrown = "TypeError"]
                  ELSE IF HasSource(c.r, r.ids[kind]) THEN HostSetData(c.r, r.ids[kind], c.data)
                  ELSE EnsureLayer(HostAddSource(c.r, r.ids[kind], c.data), r.ids[kind], LayerType(kind))
         ELSE IF r.map = NoMap THEN [r EXCEPT !.thrown = "TypeError"]
              ELSE RemoveSubLayer(r, r.ids[kind])

\* one of the four blocks of addLayers; this._map.getSource on a null map throws
SyncSubLayer(r, kind, lines, b) ==
    IF r.thrown # "none" THEN r
    ELSE IF Show(kind)
         THEN LET c == CreateSource(r, kind, lines, b)
              IN  IF r.map = NoMap THEN [c.r EXCEPT !.thrown = "TypeError"]
                  ELSE EnsureLayer(UpsertSource(c.r, r.ids[kind], c.data), r.ids[kind], LayerType(kind))
         ELSE IF r.map = NoMap THEN [r EXCEPT !.thrown = "TypeError"]
              ELSE RemoveSubLayer(r, r.ids[kind])

\* addLayers() that returns after initLayersId when the grid has no line
AddLayers_SkipsEmptyGrid(r, b, iv, unit) ==
    LET lines == ComputeGrid(b, iv, unit)
    IN  IF lines.thrown # "none" THEN [r EXCEPT !.thrown = lines.thrown]
        ELSE IF Len(lines.lngLines) = 0 /\ Len(lines.latLines) = 0 THEN InitLayersId(r)
        ELSE LET r0 == InitLayersId(r)
                 r1 == SyncSubLayer(r0, "grid", lines, b)
                 r2 == SyncSubLayer(r1, "tick", lines, b)
                 r3 == SyncSubLayer(r2, "border", lines, b)
             IN  SyncSubLayer(r3, "label", lines, b)

\* addLayers() with this.bounds = b, this.interval = iv, this.intervalUnit = unit:
\* computeGrid, initLayersId, then grid, tick, border, label in this order
AddLayers(r, b, iv, unit) ==
    LET lines == ComputeGrid(b, iv, unit)
    IN  IF lines.thrown # "none" THEN [r EXCEPT !.thrown = lines.thrown]
        ELSE LET r0 == InitLayersId(r)
                 r1 == SyncSubLayer(r0, "grid", lines, b)
                 r2 == SyncSubLayer(r1, "tick", lines, b)
                 r3 == SyncSubLayer(r2, "border", lines, b)
             IN  SyncSubLayer(r3, "label", lines, b)

\* removal of one id in the order addLayers uses: removeSource, then removeLayer
RemoveOne_SourceFirst(r, lid) ==
    LET r1 == IF HasSource(r, lid) THEN HostRemoveSource(r, lid) ELSE r
    IN  IF HasLayer(r1, lid) THEN HostRemoveLayer(r1, lid) ELSE r1

\* removeFromMap(), the part inside if (this._map): per id, removeLayer then removeSource
RemoveOne(r, lid) ==
    LET r1 == IF HasLayer(r, lid) THEN HostRemoveLayer(r, lid) ELSE r
    IN  IF r1.thrown # "none" THEN r1
        ELSE IF HasSource(r1, lid) THEN HostRemoveSource(r1, lid)
        ELSE r1

RemoveAll(r) ==
    IF r.ids = Null THEN r
    ELSE RemoveOne(RemoveOne(RemoveOne(RemoveOne(r, r.ids.grid), r.ids.tick), r.ids.border), r.ids.label)

----------------------------------------------------------------------------
(* Operations *)

\* the run record at the start of an operation on host m
Begin(m) ==
    [map |-> m,
     src |-> IF m = NoMap THEN <<>> ELSE hostSources[m],
     lyr |-> IF m = NoMap THEN <<>> ELSE hostLayers[m],
     img |-> IF m = NoMap THEN <<>> ELSE hostImages[m],
     ids |-> layerIDs, next |-> id, fired |-> {}, thrown |-> "none", fault |-> "none"]

\* the state left by an operation, whether it returned or threw
Commit(r) ==
    /\ hostSources' = IF r.map = NoMap THEN hostSources ELSE [hostSources EXCEPT ![r.map] = r.src]
    /\ hostLayers' = IF r.map = NoMap THEN hostLayers ELSE [hostLayers EXCEPT ![r.map] = r.lyr]
    /\ hostImages' = IF r.map = NoMap THEN hostImages ELSE [hostImages EXCEPT ![r.map] = r.img]
    /\ layerIDs' = r.ids
    /\ id' = r.next
    /\ fired' = r.fired
    /\ result' = IF r.thrown = "none" THEN "ok" ELSE r.thrown

IdSet(ids) == IF ids = Null THEN {} ELSE {ids.grid, ids.tick, ids.border, ids.label}

Flags == <<showLabel, showTick, showBorder, showGrid>>

Config == <<intervalUnit, interval, bounds>>

\* a controller just constructed and the hosts before it is attached to one
Unattached ==
    /\ map = NoMap
    /\ layerIDs = Null
    /\ id = 1
    /\ hostSources = [h \in Hosts |-> <<>>]
    /\ hostLayers = [h \in Hosts |-> <<>>]
    /\ hostImages = [h \in Hosts |-> <<>>]
    /\ hostBearing = [h \in Hosts |-> 0]
    /\ phase = "Detached"
    /\ result = "ok"
    /\ streak = 0
    /\ fired = {}
    /\ pastIds = {}

CtrlInit ==
    /\ showLabel \in BOOLEAN /\ showTick \in BOOLEAN
    /\ showBorder \in BOOLEAN /\ showGrid \in BOOLEAN
    /\ \E a \in IntervalArgs : a[2] \in {"d", "m"} /\ interval = a[1] /\ intervalUnit = a[2]
    /\ bounds \in BoundsChoices \cup {Null}
    /\ Unattached

\* no sequence under observation, no second instance, no pure call
AuxInit == toggle = Null /\ other = Null /\ mine = {} /\ call = Null /\ ret = Null /\ shell = Null

Init == CtrlInit /\ AuxInit

\* addTo(map) without the check of its argument
AddTo_NoHostCheck(m) ==
    /\ id <= IdLimit
    /\ UNCHANGED <<Flags, Config, hostBearing, pastIds>>
    /\ map' = m
    /\ phase' = (IF m = NoMap THEN phase ELSE "Attached")
    /\ \E r \in {AddLayers(Begin(m), bounds, interval, intervalUnit)} : Commit(r)
    /\ streak' = (IF result' = "ok" THEN 1 ELSE 0)

\* addTo(map)
AddTo(m) ==
    /\ id <= IdLimit
    /\ UNCHANGED <<Flags, Config, hostBearing, pastIds>>
    /\ IF m = NoMap
       THEN /\ Commit([Begin(map) EXCEPT !.thrown = "MapEmpty"])
            /\ UNCHANGED <<map, phase>>
       ELSE /\ map' = m
            /\ phase' = "Attached"
            /\ \E r \in {AddLayers(Begin(m), bounds, interval, intervalUnit)} : Commit(r)
    /\ streak' = (IF result' = "ok" THEN 1 ELSE 0)

\* update()
Update ==
    /\ id <= IdLimit
    /\ UNCHANGED <<Flags, Config, map, phase, hostBearing, pastIds>>
    /\ \E r \in {AddLayers(Begin(map), bounds, interval, intervalUnit)} : Commit(r)
    /\ streak' = (IF result' # "ok" THEN 0 ELSE IF streak = 0 THEN 1 ELSE 2)

\* setBounds(bounds) that refreshes before it stores the new bounds
SetBounds_StoresAfter(b) ==
    /\ id <= IdLimit
    /\ bounds' = b
    /\ UNCHANGED <<Flags, intervalUnit, interval, map, phase, hostBearing, pastIds>>
    /\ \E r \in {AddLayers(Begin(map), bounds, interval, intervalUnit)} : Commit(r)
    /\ streak' = (IF result' = "ok" THEN 1 ELSE 0)

\* setBounds(bounds)
SetBounds(b) ==
    /\ id <= IdLimit
    /\ bounds' = b
    /\ UNCHANGED <<Flags, intervalUnit, interval, map, phase, hostBearing, pastIds>>
    /\ \E r \in {AddLayers(Begin(map), b, interval, intervalUnit)} : Commit(r)
    /\ streak' = (IF result' = "ok" THEN 1 ELSE 0)

\* setInterval(interval, unit)
SetInterval(i, u) ==
    /\ id <= IdLimit
    /\ interval' = i
    /\ intervalUnit' = u
    /\ UNCHANGED <<Flags, bounds, map, phase, hostBearing, pastIds>>
    /\ \E r \in {AddLayers(Begin(map), bounds, i, u)} : Commit(r)
    /\ streak' = (IF result' = "ok" THEN 1 ELSE 0)

\* removeFromMap() that forgets to clear this._map
RemoveFromMap_KeepsMap ==
    /\ streak' = 0
    /\ UNCHANGED <<Flags, Config, hostBearing, map>>
    /\ IF map = NoMap
       THEN /\ Commit(Begin(map))
            /\ UNCHANGED <<phase, pastIds>>
       ELSE \E r \in {RemoveAll(Begin(map))} :
                /\ pastIds' = pastIds \cup IdSet(layerIDs)
                /\ phase' = "Detached"
                /\ Commit([r EXCEPT !.ids = Null])

\* removeFromMap()
RemoveFromMap ==
    /\ streak' = 0
    /\ UNCHANGED <<Flags, Config, hostBearing>>
    /\ IF map = NoMap
       THEN /\ Commit(Begin(map))
            /\ UNCHANGED <<map, phase, pastIds>>
       ELSE \E r \in {RemoveAll(Begin(map))} :
                /\ pastIds' = pastIds \cup IdSet(layerIDs)
                /\ phase' = "Detached"
                /\ IF r.thrown # "none"
                   THEN /\ Commit(r)
                        /\ UNCHANGED map
                   ELSE /\ Commit([r EXCEPT !.ids = Null])
                        /\ map' = NoMap

\* assignment to one of the public visibility fields
SetShow(kind, v) ==
    /\ Show(kind) # v
    /\ streak' = 0
    /\ showGrid' = IF kind = "grid" THEN v ELSE showGrid
    /\ showTick' = IF kind = "tick" THEN v ELSE showTick
    /\ showBorder' = IF kind = "border" THEN v ELSE showBorder
    /\ showLabel' = IF kind = "label" THEN v ELSE showLabel
    /\ UNCHANGED <<Config, map, layerIDs, id, hostSources, hostLayers, hostImages,
                   hostBearing, phase, result, fired, pastIds>>

\* the host's view is rotated by the user
Move(h, b) ==
    /\ hostBearing[h] # b
    /\ streak' = 0
    /\ hostBearing' = [hostBearing EXCEPT ![h] = b]
    /\ UNCHANGED <<Flags, Config, map, layerIDs, id, hostSources, hostLayers, hostImages,
                   phase, result, fired, pastIds>>

Next ==
    \/ (\E m \in {"h1", NoMap} : AddTo(m)) /\ UNCHANGED Aux
    \/ Update /\ UNCHANGED Aux
    \/ (\E b \in BoundsChoices : SetBounds(b)) /\ UNCHANGED Aux
    \/ (\E a \in IntervalArgs : SetInterval(a[1], a[2])) /\ UNCHANGED Aux
    \/ RemoveFromMap /\ UNCHANGED Aux
    \/ (\E k \in ToggleKinds, v \in BOOLEAN : SetShow(k, v)) /\ UNCHANGED Aux
    \/ (\E b \in Bearings : Move("h1", b)) /\ UNCHANGED Aux

Spec == Init /\ [][Next]_vars

----------------------------------------------------------------------------
(* The controller on a host that can reject the registry calls for one sub-layer *)

\* update() during which the host rejects the calls for the id of sub-layer k
UpdateRejected(k) ==
    /\ id <= IdLimit
    /\ UNCHANGED <<Flags, Config, map, phase, hostBearing, pastIds>>
    /\ \E r \in {AddLayers([Begin(map) EXCEPT !.fault = k], bounds, interval, intervalUnit)} : Commit(r)
    /\ streak' = 0

FaultNext ==
    \/ (\E m \in {"h1", NoMap} : AddTo(m)) /\ UNCHANGED Aux
    \/ Update /\ UNCHANGED Aux
    \/ (\E k \in KindSet : UpdateRejected(k)) /\ UNCHANGED Aux
    \/ (\E b \in BoundsChoices : SetBounds(b)) /\ UNCHANGED Aux
    \/ (\E a \in IntervalArgs : SetInterval(a[1], a[2])) /\ UNCHANGED Aux
    \/ RemoveFromMap /\ UNCHANGED Aux
    \/ (\E k \in ToggleKinds, v \in BOOLEAN : SetShow(k, v)) /\ UNCHANGED Aux

FaultSpec == Init /\ [][FaultNext]_vars

----------------------------------------------------------------------------
(* The controller with a flag off / update() / flag on / update() sequence observed *)

\* the coordinates of a feature collection, feature by feature
Coords(fc) == [k \in 1..Len(fc.features) |-> fc.features[k].geometry.coordinates]

\* the coordinates an update() would now compute for sub-layer kind, Null when computeGrid throws
FreshCoords(kind) ==
    LET lines == ComputeGrid(bounds, interval, intervalUnit)
    IN  IF lines.thrown # "none" \/ map = NoMap THEN Null
        ELSE Coords(CreateSource(Begin(map), kind, lines, bounds).data)

\* sub-layer kind has its source and layer on the host, computed from the present bounds,
\* interval and view
InPlace(kind) ==
    /\ map # NoMap /\ layerIDs # Null
    /\ layerIDs[kind] \in DOMAIN hostSources[map]
    /\ layerIDs[kind] \in DOMAIN hostLayers[map]
    /\ Coords(hostSources[map][layerIDs[kind]]) = FreshCoords(kind)

\* stage 1: flag set to false; 2: update() returned; 3: flag set back to true; 4: update() returned
ToggleSetShow(k, v) ==
    /\ SetShow(k, v)
    /\ toggle' = IF ~v /\ InPlace(k)
                  THEN [stage |-> 1, kind |-> k, id |-> layerIDs[k],
                        coords |-> Coords(hostSources[map][layerIDs[k]])]
                  ELSE IF v /\ toggle # Null /\ toggle.kind = k /\ toggle.stage = 2
                  THEN [toggle EXCEPT !.stage = 3]
                  ELSE Null

ToggleUpdate ==
    /\ Update
    /\ toggle' = IF toggle # Null /\ toggle.stage \in {1, 3} /\ result' = "ok"
                  THEN [toggle EXCEPT !.stage = @ + 1]
                  ELSE Null

ToggleNext ==
    \/ (\E m \in {"h1", NoMap} : AddTo(m)) /\ toggle' = Null /\ UNCHANGED ToggleAux
    \/ ToggleUpdate /\ UNCHANGED ToggleAux
    \/ (\E b \in BoundsChoices : SetBounds(b)) /\ toggle' = Null /\ UNCHANGED ToggleAux
    \/ (\E a \in IntervalArgs : SetInterval(a[1], a[2])) /\ toggle' = Null /\ UNCHANGED ToggleAux
    \/ RemoveFromMap /\ toggle' = Null /\ UNCHANGED ToggleAux
    \/ (\E k \in ToggleKinds, v \in BOOLEAN : ToggleSetShow(k, v)) /\ UNCHANGED ToggleAux
    \/ (\E b \in Bearings : Move("h1", b)) /\ toggle' = Null /\ UNCHANGED ToggleAux

ToggleSpec == Init /\ [][ToggleNext]_vars

----------------------------------------------------------------------------
(* Two controller instances on one host.  The fields of the instance that is called next *)
(* are the controller variables; the fields of the other instance wait in other.  Calls   *)
(* run to completion (one JavaScript thread), so an interleaving is a sequence of calls   *)
(* with Switch between calls on different instances.                                      *)

\* the fields of the instance in the controller variables, with the ids it has generated
Instance ==
    [showLabel |-> showLabel, showTick |-> showTick, showBorder |-> showBorder,
     showGrid |-> showGrid, intervalUnit |-> intervalUnit, interval |-> interval,
     bounds |-> bounds, map |-> map, layerIDs |-> layerIDs, phase |-> phase,
     pastIds |-> pastIds, mine |-> mine]

\* new GraticuleLayer({bounds, interval, intervalUnit}) with the default flags
Constructed(b, iv, unit) ==
    [showLabel |-> TRUE, showTick |-> TRUE, showBorder |-> TRUE, showGrid |-> FALSE,
     intervalUnit |-> unit, interval |-> iv, bounds |-> b, map |-> NoMap, layerIDs |-> Null,
     phase |-> "Detached", pastIds |-> {}, mine |-> {}]

\* the (interval, unit) pairs the two instances are constructed with and set to
PairIntervalArgs == { <<60 * IntervalDen, "d">>, <<60 * IntervalDen, "m">> }

PairInit ==
    /\ CtrlInit
    /\ bounds # Null
    /\ <<interval, intervalUnit>> \in PairIntervalArgs
    /\ mine = {}
    /\ Instance = Constructed(bounds, interval, intervalUnit)
    /\ other \in {Constructed(b, a[1], a[2]) : b \in BoundsChoices, a \in PairIntervalArgs}
    /\ toggle = Null /\ call = Null /\ ret = Null /\ shell = Null

\* the next call goes to the other instance
Switch ==
    /\ other # Null
    /\ other' = Instance
    /\ showLabel' = other.showLabel /\ showTick' = other.showTick
    /\ showBorder' = other.showBorder /\ showGrid' = other.showGrid
    /\ intervalUnit' = other.intervalUnit /\ interval' = other.interval
    /\ bounds' = other.bounds /\ map' = other.map /\ layerIDs' = other.layerIDs
    /\ phase' = other.phase /\ pastIds' = other.pastIds /\ mine' = other.mine
    /\ streak' = 0 /\ result' = "ok" /\ fired' = {}
    /\ UNCHANGED <<id, hostSources, hostLayers, hostImages, hostBearing, toggle, call, ret, shell>>

\* the ids the instance in the controller variables generated in this step: the ids of
\* its table and the ids of the images it registered
Generated ==
    /\ mine' = mine \cup IdSet(layerIDs')
                     \cup UNION {DOMAIN hostImages'[h] \ DOMAIN hostImages[h] : h \in Hosts}
    /\ UNCHANGED <<other, toggle, call, ret, shell>>

PairNext ==
    \/ Switch
    \/ AddTo("h1") /\ Generated
    \/ Update /\ Generated
    \/ (\E b \in BoundsChoices : SetBounds(b)) /\ Generated
    \/ (\E a \in PairIntervalArgs : SetInterval(a[1], a[2])) /\ Generated
    \/ RemoveFromMap /\ Generated

PairSpec == PairInit /\ [][PairNext]_vars

----------------------------------------------------------------------------
(* createlabelFormatter called on its own, in Number arithmetic *)

\* d degrees, m arc-minutes and h half arc-seconds as a coordinate
DMS(d, m, h) == d * UnitsPerDegree + m * UnitsPerMinute + h

\* the coordinates the formatter is called with, of both signs; 120.73, 1.2 and 4.1 among them
FormatNums ==
    LET pos == {DMS(d, m, h) : d \in {0, 30, 120}, m \in {0, 30, 59}, h \in {0, 1, 119}}
                   \cup {DMS(120, 43, 96), DMS(1, 12, 0), DMS(4, 6, 0)}
    IN  pos \cup {-v : v \in pos}

\* the precision tags it is called with; 'dms' is none of the three the code names
FormatTags == {"degree", "minute", "second", "dms"}

\* a constructed controller that is never attached: the state around a call of a pure method
Idle ==
    /\ CtrlInit
    /\ showLabel /\ showTick /\ showBorder /\ ~showGrid
    /\ bounds = Null /\ interval = 30 * IntervalDen /\ intervalUnit = "d"

FormatInit ==
    /\ Idle
    /\ call \in [num : FormatNums, isLng : BOOLEAN, labelFormat : FormatTags]
    /\ ret = Null
    /\ toggle = Null /\ other = Null /\ mine = {} /\ shell = Null

\* createlabelFormatter(num, isLng, labelFormat): it has no throw statement, so it returns
CallFormatter ==
    /\ ret = Null
    /\ ret' = [thrown |-> "none",
               value |-> NumberCreatelabelFormatter(call.num, call.isLng, call.labelFormat)]
    /\ UNCHANGED <<Flags, Config, map, layerIDs, id, hostSources, hostLayers, hostImages,
                   hostBearing, phase, result, streak, fired, pastIds, toggle, other, mine, call, shell>>

FormatSpec == FormatInit /\ [][CallFormatter]_vars

----------------------------------------------------------------------------
(* computeGrid called on its own, in Number arithmetic *)

\* m arc-minutes as a coordinate
ArcMin(m) == m * UnitsPerMinute

\* [west, east] spans, in arc-minutes: 120..130, 120.5..121, 1.5..1.8, -4.6..-1.9,
\* and the degenerate 120..120, 0.3..0.3, 4.1..4.1
LngSpans == { <<7200, 7800>>, <<7230, 7260>>, <<90, 108>>, <<-276, -114>>,
              <<7200, 7200>>, <<18, 18>>, <<246, 246>> }

\* [south, north] spans, in arc-minutes: 30..40, 31..31.4, 1.5..1.8, -4.6..-1.9,
\* and the degenerate 30..30, 0.3..0.3, 4.1..4.1
LatSpans == { <<1800, 2400>>, <<1860, 1884>>, <<90, 108>>, <<-276, -114>>,
              <<1800, 1800>>, <<18, 18>>, <<246, 246>> }

\* the bounds computeGrid is called with: whole arc-minutes, west <= east, south <= north
GridBoundsChoices ==
    { MkBounds(ArcMin(x[1]), ArcMin(y[1]), ArcMin(x[2]), ArcMin(y[2])) : x \in LngSpans, y \in LatSpans }
        \cup BoundsChoices

\* the (interval, unit) pairs it is called with: 5, 10, 0.5, 0.3 and 0.1 degrees,
\* 300, 18 and 6 arc-minutes, and the pairs the controller's operations use
GridIntervalArgs ==
    { <<5 * IntervalDen, "d">>, <<10 * IntervalDen, "d">>, <<30, "d">>, <<18, "d">>, <<6, "d">>,
      <<300 * IntervalDen, "m">>, <<18 * IntervalDen, "m">>, <<6 * IntervalDen, "m">> }
        \cup IntervalArgs

GridInit ==
    /\ showLabel = TRUE /\ showTick = TRUE /\ showBorder = TRUE /\ showGrid = FALSE
    /\ bounds \in GridBoundsChoices
    /\ \E a \in GridIntervalArgs : interval = a[1] /\ intervalUnit = a[2]
    /\ Unattached
    /\ call = Null /\ ret = Null
    /\ toggle = Null /\ other = Null /\ mine = {} /\ shell = Null

\* computeGrid(): it reads this.bounds, this.interval and this.intervalUnit
CallComputeGrid ==
    /\ ret = Null
    /\ \E r \in {NumberComputeGrid(bounds, interval, intervalUnit)} :
           ret' = [thrown |-> r.thrown, value |-> [lngLines |-> r.lngLines, latLines |-> r.latLines]]
    /\ UNCHANGED <<Flags, Config, map, layerIDs, id, hostSources, hostLayers, hostImages,
                   hostBearing, phase, result, streak, fired, pastIds, toggle, other, mine, call, shell>>

GridSpec == GridInit /\ [][CallComputeGrid]_vars

----------------------------------------------------------------------------
(* createTickLinesSource called on its own *)

\* the bearings of the host: the multiples of 90 degrees and the 3-4-5 angles
TickBearings == {0, 37, 53, 90, 127, 143, 180, 217, 233, 270, 307, 323}

\* the values of this.tickLength; 0 is a length the constructor accepts
TickLengths == {0, 5, 10}

\* the grid lines it is called with: those of [[120, 30], [120.5, 30.5]] at 30 degrees
\* and of [[120, 30], [130, 40]] at 5 degrees
TickLines ==
    { ComputeGrid(b, 30 * IntervalDen, "d") : b \in {MkBounds(Deg(120), Deg(30), Deg(120) + (UnitsPerDegree \div 2), Deg(30) + (UnitsPerDegree \div 2))} }
        \cup { ComputeGrid(MkBounds(Deg(120), Deg(30), Deg(130), Deg(40)), 5 * IntervalDen, "d") }

TickInit ==
    /\ showLabel = TRUE /\ showTick = TRUE /\ showBorder = TRUE /\ showGrid = FALSE
    /\ bounds = Null /\ interval = 30 * IntervalDen /\ intervalUnit = "d"
    /\ map = NoMap
    /\ layerIDs = Null
    /\ id = 1
    /\ hostSources = [h \in Hosts |-> <<>>]
    /\ hostLayers = [h \in Hosts |-> <<>>]
    /\ hostImages = [h \in Hosts |-> <<>>]
    /\ \E b \in TickBearings : hostBearing = [h \in Hosts |-> b]
    /\ phase = "Detached"
    /\ result = "ok"
    /\ streak = 0
    /\ fired = {}
    /\ pastIds = {}
    /\ \E g \in TickLines, t \in TickLengths :
           call = [lngLines |-> g.lngLines, latLines |-> g.latLines, map |-> "h1", tickLen |-> t]
    /\ ret = Null
    /\ toggle = Null /\ other = Null /\ mine = {} /\ shell = Null

\* createTickLinesSource(lngLines, latLines, map, tickLen)
CallCreateTickLinesSource ==
    /\ ret = Null
    /\ ret' = [thrown |-> "none",
               value |-> CreateTickLinesSource(call.lngLines, call.latLines, call.map, call.tickLen)]
    /\ UNCHANGED <<Flags, Config, map, layerIDs, id, hostSources, hostLayers, hostImages,
                   hostBearing, phase, result, streak, fired, pastIds, toggle, other, mine, call, shell>>

TickSpec == TickInit /\ [][CallCreateTickLinesSource]_vars

----------------------------------------------------------------------------
(* The application shell: App.init and its load, move and timeout handlers *)

\* bounds of the options the shell constructs its controller with: [[120.5, 31], [121, 31.4]]
ShellBounds == MkBounds(Deg(120) + (UnitsPerDegree \div 2), Deg(31), Deg(121), Deg(31) + ((2 * UnitsPerDegree) \div 5))

\* defaultOptions.interval, which the shell does not override
ShellInterval == 10 * IntervalDen

\* intervalUnit of the options: 'm' in the shell as written; 'd' is the unit for which
\* the move handler takes its other branch
ShellUnits == {"m", "d"}

\* the bearings the user turns the view to
ShellBearings == {0, 90, 180, 270}

\* init() has run: the map exists, the handlers are registered, glayer = null, flag = true.
\* The controller's variables hold from the start what the constructor call of the load
\* handler gives them; shell.glayer tells whether the controller exists. event is the
\* notification the host is dispatching, timers the number of pending timeouts, ran the
\* number of update() calls the last handler made, stale whether a move was notified to
\* the controller and no update() has run since, absorbed whether a move was handled while
\* the pending timeout was already set.
ShellInit ==
    /\ showLabel = TRUE /\ showGrid = TRUE /\ showTick = TRUE /\ showBorder = TRUE
    /\ bounds = ShellBounds
    /\ interval = ShellInterval
    /\ intervalUnit \in ShellUnits
    /\ Unattached
    /\ shell = [glayer |-> FALSE, flag |-> TRUE, timers |-> 0, event |-> "none",
                loaded |-> FALSE, ran |-> 0, stale |-> FALSE, absorbed |-> FALSE]
    /\ toggle = Null /\ other = Null /\ mine = {} /\ call = Null /\ ret = Null

\* the host finishes loading its style and emits 'load'
HostLoad ==
    /\ shell.event = "none" /\ ~shell.loaded
    /\ shell' = [shell EXCEPT !.event = "load", !.loaded = TRUE]
    /\ UNCHANGED <<Flags, Config, map, layerIDs, id, hostSources, hostLayers, hostImages,
                   hostBearing, phase, result, streak, fired, pastIds, toggle, other, mine, call, ret>>

\* map.on('load', ...): glayer = new GraticuleLayer({...}); glayer.addTo(map)
OnLoad ==
    /\ shell.event = "load"
    /\ AddTo("h1")
    /\ shell' = [shell EXCEPT !.event = "none", !.glayer = TRUE, !.ran = 0]
    /\ UNCHANGED <<toggle, other, mine, call, ret>>

\* the user pans or turns the view and the host emits 'move'
HostMove(b) ==
    /\ shell.event = "none"
    /\ id <= IdLimit
    /\ hostBearing' = [hostBearing EXCEPT !["h1"] = b]
    /\ streak' = 0
    /\ shell' = [shell EXCEPT !.event = "move"]
    /\ UNCHANGED <<Flags, Config, map, layerIDs, id, hostSources, hostLayers, hostImages,
                   phase, result, fired, pastIds, toggle, other, mine, call, ret>>

\* the move handler without flag = false
OnMove_FlagKept ==
    /\ shell.event = "move"
    /\ IF ~shell.glayer
       THEN /\ shell' = [shell EXCEPT !.event = "none", !.ran = 0]
            /\ UNCHANGED <<Flags, Config, map, layerIDs, id, hostSources, hostLayers, hostImages,
                           hostBearing, phase, result, streak, fired, pastIds>>
       ELSE IF intervalUnit = "m"
       THEN /\ shell' = [shell EXCEPT !.event = "none", !.ran = 0, !.stale = TRUE,
                                      !.timers = IF shell.flag THEN @ + 1 ELSE @,
                                      !.absorbed = ~shell.flag]
            /\ UNCHANGED <<Flags, Config, map, layerIDs, id, hostSources, hostLayers, hostImages,
                           hostBearing, phase, result, streak, fired, pastIds>>
       ELSE /\ Update
            /\ shell' = [shell EXCEPT !.event = "none", !.ran = 1, !.stale = FALSE,
                                      !.absorbed = FALSE]
    /\ UNCHANGED <<toggle, other, mine, call, ret>>

\* map.on('move', ...): nothing without a controller; in arc-minute mode one timeout of
\* 500 ms is set unless flag is false; otherwise glayer.update() at once
OnMove ==
    /\ shell.event = "move"
    /\ IF ~shell.glayer
       THEN /\ shell' = [shell EXCEPT !.event = "none", !.ran = 0]
            /\ UNCHANGED <<Flags, Config, map, layerIDs, id, hostSources, hostLayers, hostImages,
                           hostBearing, phase, result, streak, fired, pastIds>>
       ELSE IF intervalUnit = "m"
       THEN /\ shell' = [shell EXCEPT !.event = "none", !.ran = 0, !.stale = TRUE,
                                      !.flag = FALSE,
                                      !.timers = IF shell.flag THEN @ + 1 ELSE @,
                                      !.absorbed = ~shell.flag]
            /\ UNCHANGED <<Flags, Config, map, layerIDs, id, hostSources, hostLayers, hostImages,
                           hostBearing, phase, result, streak, fired, pastIds>>
       ELSE /\ Update
            /\ shell' = [shell EXCEPT !.event = "none", !.ran = 1, !.stale = FALSE,
                                      !.absorbed = FALSE]
    /\ UNCHANGED <<toggle, other, mine, call, ret>>

\* the timeout callback without flag = true
OnTimeout_FlagLeft ==
    /\ shell.event = "none" /\ shell.timers > 0
    /\ Update
    /\ shell' = [shell EXCEPT !.timers = @ - 1, !.ran = 1, !.stale = FALSE, !.absorbed = FALSE]
    /\ UNCHANGED <<toggle, other, mine, call, ret>>

\* the timeout callback, 500 ms after it was set: glayer.update(); flag = true. When
\* update() throws, the callback ends there and flag stays false.
OnTimeout ==
    /\ shell.event = "none" /\ shell.timers > 0
    /\ Update
    /\ shell' = [shell EXCEPT !.timers = @ - 1, !.ran = 1, !.stale = FALSE, !.absorbed = FALSE,
                              !.flag = IF result' = "ok" THEN TRUE ELSE @]
    /\ UNCHANGED <<toggle, other, mine, call, ret>>

ShellNext ==
    \/ HostLoad
    \/ OnLoad
    \/ \E b \in ShellBearings : HostMove(b)
    \/ OnMove
    \/ OnTimeout

ShellSpec == ShellInit /\ [][ShellNext]_vars

\* the values of the closure
ShellStates ==
    [glayer : BOOLEAN, flag : BOOLEAN, timers : {0, 1}, event : {"none", "load", "move"},
     loaded : BOOLEAN, ran : {0, 1}, stale : BOOLEAN, absorbed : BOOLEAN]

\* the host runs the handler of the notification it is dispatching: what the steps OnLoad
\* and OnMove do to the closure
HandlerRuns ==
    /\ shell.event # "none"
    /\ \E s \in ShellStates : s.event = "none" /\ shell' = s

\* the timer of the host runs the callback of a pending timeout: what the step OnTimeout
\* does to the closure
TimeoutFires ==
    /\ shell.event = "none" /\ shell.timers > 0
    /\ \E f \in BOOLEAN : shell' = [shell EXCEPT !.timers = @ - 1, !.ran = 1, !.stale = FALSE,
                                                !.absorbed = FALSE, !.flag = f]

\* the shell under the scheduling of the browser: a handler runs to completion as soon as
\* its notification is emitted, and a timeout that was set fires after its delay even when
\* move notifications keep arriving: the callback is not due while a handler runs, so
\* the condition on the timer is the strong one. Both are stated on the closure, where
\* OnLoad, OnMove and OnTimeout are the only steps that satisfy them.
ShellFairSpec == ShellSpec /\ WF_shell(HandlerRuns) /\ SF_shell(TimeoutFires)

----------------------------------------------------------------------------
(* The controller attached to one host and then to another *)

RebindNext ==
    \/ (\E m \in Hosts : AddTo(m)) /\ UNCHANGED Aux
    \/ Update /\ UNCHANGED Aux
    \/ RemoveFromMap /\ UNCHANGED Aux

RebindSpec == Init /\ [][RebindNext]_vars

----------------------------------------------------------------------------
(* The second GraticuleLayer, of util.ts: ticks and labels at a fixed pixel offset *)

\* computeGrid() of util.ts: statement for statement that of GraticuleLayer.ts
UtilComputeGrid(b, iv, unit) ==
    IF b = Null THEN [thrown |-> "TypeError", lngLines |-> <<>>, latLines |-> <<>>]
    ELSE IF unit = "d" THEN [thrown |-> "none"] @@ GridDegree(b, iv)
    ELSE IF unit = "m" THEN [thrown |-> "none"] @@ GridMinute(b, iv)
    ELSE [thrown |-> "UnsupportedUnit", lngLines |-> <<>>, latLines |-> <<>>]

\* createBorderLinesSource(bounds) of util.ts
UtilCreateBorderLinesSource(bnds) ==
    IF bnds = Null THEN EMPTY_GEOSJON
    ELSE FeatureCollection(<< LineFeature(<< <<bnds.west, bnds.south>>, <<bnds.east, bnds.south>>,
                                             <<bnds.east, bnds.north>>, <<bnds.west, bnds.north>>,
                                             <<bnds.west, bnds.south>> >>) >>)

\* the projected point moved by tick pixels: along x when xAxis, along y otherwise
UtilMoved(point, tick, xAxis) ==
    IF xAxis THEN << point[1] + tick, point[2] >> ELSE << point[1], point[2] + tick >>

\* createTickLine that moves the point along x whatever the axis
UtilCreateTickLine_AlongX(b, lnglat, tick, xAxis) ==
    LineFeature(<< lnglat, Unproject(b, UtilMoved(Project(b, lnglat), tick, TRUE)) >>)

\* createTickLine(lnglat, tick, xAxis) of util.ts
UtilCreateTickLine(b, lnglat, tick, xAxis) ==
    LineFeature(<< lnglat, Unproject(b, UtilMoved(Project(b, lnglat), tick, xAxis)) >>)

\* createTickLinesSource(lngLines, latLines, map, tickLen) of util.ts
UtilCreateTickLinesSource(lngLines, latLines, m, tickLen) ==
    IF Len(lngLines) = 0 \/ Len(latLines) = 0 \/ m = NoMap THEN EMPTY_GEOSJON
    ELSE LET b == hostBearing[m]
             len == OrDefault(tickLen)
             Lng[k \in 0..Len(lngLines)] ==
                 IF k = 0 THEN <<>>
                 ELSE Lng[k - 1] \o << UtilCreateTickLine(b, lngLines[k][1], len, FALSE),
                                       UtilCreateTickLine(b, lngLines[k][2], -len, FALSE) >>
             Lat[k \in 0..Len(latLines)] ==
                 IF k = 0 THEN <<>>
                 ELSE Lat[k - 1] \o << UtilCreateTickLine(b, latLines[k][1], -len, TRUE),
                                       UtilCreateTickLine(b, latLines[k][2], len, TRUE) >>
         IN  FeatureCollection(Lng[Len(lngLines)] \o Lat[Len(latLines)])

\* createPoint(lnglat, tick, xAxis, textAnchor) of util.ts: no icon is drawn
UtilCreatePoint(b, lnglat, tick, xAxis, textAnchor) ==
    PointFeature([label |-> CreatelabelFormatter(IF xAxis THEN lnglat[2] ELSE lnglat[1], ~xAxis, LabelFormat),
                  rotate |-> IF xAxis THEN -90 ELSE 0,
                  anchor |-> textAnchor],
                 Unproject(b, UtilMoved(Project(b, lnglat), tick, xAxis)))

\* createLabelPointsSource(lngLines, latLines, map, tickLen) of util.ts
UtilCreateLabelPointsSource(lngLines, latLines, m, tickLen) ==
    IF Len(lngLines) = 0 \/ Len(latLines) = 0 \/ m = NoMap THEN EMPTY_GEOSJON
    ELSE LET b == hostBearing[m]
             len == OrDefault(tickLen)
             Lng[k \in 0..Len(lngLines)] ==
                 IF k = 0 THEN <<>>
                 ELSE Lng[k - 1] \o << UtilCreatePoint(b, lngLines[k][1], len, FALSE, "top"),
                                       UtilCreatePoint(b, lngLines[k][2], -len, FALSE, "bottom") >>
             Lat[k \in 0..Len(latLines)] ==
                 IF k = 0 THEN <<>>
                 ELSE Lat[k - 1] \o << UtilCreatePoint(b, latLines[k][1], -len, TRUE, "bottom"),
                                       UtilCreatePoint(b, latLines[k][2], len, TRUE, "top") >>
         IN  FeatureCollection(Lng[Len(lngLines)] \o Lat[Len(latLines)])

\* the configurations both implementations are given: bounds, interval and unit
VariantConfigs ==
    (BoundsChoices \X IntervalArgs)
        \cup ({ MkBounds(Deg(120), Deg(30), Deg(130), Deg(40)), MkBounds(-Deg(5), -Deg(5), Deg(5), Deg(5)) }
                 \X { <<5 * IntervalDen, "d">>, <<10 * IntervalDen, "d">>, <<60 * IntervalDen, "x">> })

\* the bearings of the host they are compared at
VariantBearings == {0, 90, 180, 270}

VariantInit ==
    /\ showLabel = TRUE /\ showTick = TRUE /\ showBorder = TRUE /\ showGrid = TRUE
    /\ \E c \in VariantConfigs : bounds = c[1] /\ interval = c[2][1] /\ intervalUnit = c[2][2]
    /\ map = NoMap
    /\ layerIDs = Null
    /\ id = 1
    /\ hostSources = [h \in Hosts |-> <<>>]
    /\ hostLayers = [h \in Hosts |-> <<>>]
    /\ hostImages = [h \in Hosts |-> <<>>]
    /\ \E b \in VariantBearings : hostBearing = [h \in Hosts |-> b]
    /\ phase = "Detached"
    /\ result = "ok"
    /\ streak = 0
    /\ fired = {}
    /\ pastIds = {}
    /\ \E t \in TickLengths : call = [map |-> "h1", tickLen |-> t]
    /\ ret = Null
    /\ toggle = Null /\ other = Null /\ mine = {} /\ shell = Null

\* computeGrid and the four create...Source methods of both classes, on the same
\* configuration, host and tickLen
CallBoth ==
    /\ ret = Null
    /\ LET g == ComputeGrid(bounds, interval, intervalUnit)
           u == UtilComputeGrid(bounds, interval, intervalUnit)
       IN  ret' = [layer |-> [lines |-> g,
                              border |-> CreateBorderLinesSource(bounds),
                              tick |-> CreateTickLinesSource(g.lngLines, g.latLines, call.map, call.tickLen),
                              label |-> CreateLabelPointsSource(Begin(call.map), g.lngLines, g.latLines,
                                                                call.tickLen).data],
                   util |-> [lines |-> u,
                             border |-> UtilCreateBorderLinesSource(bounds),
                             tick |-> UtilCreateTickLinesSource(g.lngLines, g.latLines, call.map, call.tickLen),
                             label |-> UtilCreateLabelPointsSource(g.lngLines, g.latLines, call.map,
                                                                   call.tickLen)]]
    /\ UNCHANGED <<Flags, Config, map, layerIDs, id, hostSources, hostLayers, hostImages,
                   hostBearing, phase, result, streak, fired, pastIds, toggle, other, mine, call, shell>>

VariantSpec == VariantInit /\ [][CallBoth]_vars

----------------------------------------------------------------------------
(* Properties *)

\* the controller's fields and everything it can reach on the hosts
ProgramState == <<Flags, Config, map, layerIDs, id, hostSources, hostLayers, hostImages>>

\* host m holds a source / a layer under the stable id of sub-layer kind
SourceOn(m, kind) == layerIDs[kind] \in DOMAIN hostSources[m]

LayerOn(m, kind) == layerIDs[kind] \in DOMAIN hostLayers[m]

\* C1: after every attach, update, setBounds or setInterval that returned normally while
\* Attached, an enabled sub-layer has both its source and its layer on the host and a
\* disabled one has neither.
C1_FlagsMatchRegistry ==
    (streak >= 1 /\ map # NoMap) =>
        \A k \in KindSet :
            IF Show(k) THEN SourceOn(map, k) /\ LayerOn(map, k)
            ELSE ~SourceOn(map, k) /\ ~LayerOn(map, k)

\* C2: the controller never calls addSource or addLayer for an id the host already
\* holds: no call ever ends in the host's duplicate-source error or fires its
\* duplicate-layer error.
C2_NoDuplicateAdd == result # "DuplicateSource" /\ "DuplicateLayer" \notin fired

\* an update() found the grid source and layer in place and returned normally
C2_Witness == streak = 2 /\ map # NoMap /\ showGrid /\ SourceOn(map, "grid") /\ LayerOn(map, "grid")

\* C3: a second consecutive update() with nothing changed in between leaves every enabled
\* sub-layer's source with a feature collection identical to the one of the first.
C3_UpdateByteIdentical ==
    [][(streak >= 1 /\ streak' = 2) =>
         \A k \in KindSet : Show(k) => hostSources'[map][layerIDs[k]] = hostSources[map][layerIDs[k]]]_vars

\* C4: a second consecutive update() with nothing changed in between leaves every enabled
\* sub-layer's source with the same number of features and the same coordinates in the
\* same order.
C4_UpdateSameCoordinates ==
    [][(streak >= 1 /\ streak' = 2) =>
         \A k \in KindSet : Show(k) => Coords(hostSources'[map][layerIDs[k]])
                                       = Coords(hostSources[map][layerIDs[k]])]_vars

\* two consecutive updates ran with ticks and labels enabled on a grid that has lines
C4_Witness ==
    /\ streak = 2 /\ map # NoMap /\ showTick /\ showLabel
    /\ Len(hostSources[map][layerIDs.label].features) > 0
    /\ Len(hostSources[map][layerIDs.tick].features) > 0

\* C5: attach with an absent host throws and changes nothing of the controller or the
\* hosts; attach with a host binds it, and when it returns normally the id table exists
\* and every enabled sub-layer has its source and layer on that host.
C5_AttachContract ==
    [][/\ AddTo(NoMap) => result' = "MapEmpty" /\ UNCHANGED <<ProgramState, phase>>
       /\ \A h \in Hosts : AddTo(h) =>
             /\ map' = h
             /\ phase' = "Attached"
             /\ result' = "ok" =>
                  /\ layerIDs' # Null
                  /\ \A k \in KindSet : Show(k) => /\ layerIDs'[k] \in DOMAIN hostSources'[h]
                                                   /\ layerIDs'[k] \in DOMAIN hostLayers'[h]]_vars

\* attach(null) was called on a controller that was never attached
C5_Witness == result = "MapEmpty" /\ phase = "Detached" /\ map = NoMap /\ layerIDs = Null

\* C6: detach while Attached returns normally, leaves no source and no layer under any
\* of the four stable ids on the host and clears the host reference and the id table;
\* detach while Detached changes nothing and returns normally.
C6_DetachContract ==
    [][RemoveFromMap =>
         /\ result' = "ok"
         /\ IF map = NoMap THEN UNCHANGED ProgramState
            ELSE /\ map' = NoMap
                 /\ layerIDs' = Null
                 /\ \A sid \in IdSet(layerIDs) : /\ sid \notin DOMAIN hostSources'[map]
                                                 /\ sid \notin DOMAIN hostLayers'[map]]_vars

\* a lifecycle that had stable ids was ended by detach
C6_Witness == pastIds # {} /\ map = NoMap /\ layerIDs = Null /\ result = "ok" /\ streak = 0

\* C7: while Detached, update, setBounds and setInterval all throw, and none of them
\* changes a source, layer or image of any host.
C7_DetachedCallsFail ==
    [][(/\ phase = "Detached"
        /\ \/ Update
           \/ \E b \in BoundsChoices : SetBounds(b)
           \/ \E a \in IntervalArgs : SetInterval(a[1], a[2]))
       => /\ result' # "ok"
          /\ UNCHANGED <<hostSources, hostLayers, hostImages>>]_vars

\* a call failed after a detach that ended a lifecycle, with host content left behind it
C7_Witness == phase = "Detached" /\ pastIds # {} /\ result = "TypeError"

\* C8: the stable ids held now differ from every stable id of an earlier lifecycle.
C8_FreshIdsPerLifecycle == IdSet(layerIDs) \cap pastIds = {}

\* the controller is attached again, with ids, after a detach that ended a lifecycle with ids
C8_Witness == pastIds # {} /\ phase = "Attached" /\ layerIDs # Null /\ result = "ok"

\* C9: while the controller stays Attached the id table, once generated, never changes,
\* and its four ids are pairwise distinct.
C9_StableIds ==
    [][/\ (phase = "Attached" /\ phase' = "Attached" /\ layerIDs # Null) => layerIDs' = layerIDs
       /\ layerIDs' # Null => Cardinality(IdSet(layerIDs')) = 4]_vars

\* two updates in a row ran on an attached controller
C9_Witness == phase = "Attached" /\ layerIDs # Null /\ streak = 2

\* C10: whenever no host is bound the id table is absent.
C10_NoIdsWhileDetached == map = NoMap => layerIDs = Null

\* C11: when a flag of a sub-layer that is in place is set to false, update() is called,
\* the flag is set back to true and update() is called again, with bounds, interval and
\* view untouched, the sub-layer has its source and layer on the host under the stable
\* id it had before, and the source has the feature count and coordinates it had before.
C11_ToggleRestores ==
    (toggle # Null /\ toggle.stage = 4) =>
        /\ layerIDs # Null /\ layerIDs[toggle.kind] = toggle.id
        /\ toggle.id \in DOMAIN hostSources[map]
        /\ toggle.id \in DOMAIN hostLayers[map]
        /\ Coords(hostSources[map][toggle.id]) = toggle.coords

\* the label sub-layer, with labels in it, went through the whole sequence
C11_Witness ==
    toggle # Null /\ toggle.stage = 4 /\ toggle.kind = "label" /\ Len(toggle.coords) > 0
    /\ hostBearing[map] = 90

\* the entries of a host registry under ids of the given set are the same before and after
Untouched(before, after, ids) ==
    \A k \in ids : /\ (k \in DOMAIN before) = (k \in DOMAIN after)
                    /\ k \in DOMAIN before => before[k] = after[k]

\* C12: two instances on one host never hold a common source, layer or icon id, and a
\* call on one instance adds, replaces or removes no source, layer or image under an id
\* of the other.
C12_InstancesDisjoint ==
    [][/\ mine' \cap other'.mine = {}
       /\ IdSet(layerIDs') \cap IdSet(other'.layerIDs) = {}
       /\ other' = other =>
             \A h \in Hosts : /\ Untouched(hostSources[h], hostSources'[h], other.mine)
                               /\ Untouched(hostLayers[h], hostLayers'[h], other.mine)
                               /\ Untouched(hostImages[h], hostImages'[h], other.mine)]_vars

\* both instances are attached to the same host, each with labels and images of its own,
\* after one of them was detached and attached again
C12_Witness ==
    /\ other # Null /\ map = "h1" /\ other.map = "h1"
    /\ layerIDs # Null /\ other.layerIDs # Null
    /\ \E i \in mine, j \in other.mine : i[1] = "graticule-icon-" /\ j[1] = "graticule-icon-"
    /\ pastIds # {}

\* C13: a second consecutive update() with nothing changed in between registers no image
\* beyond those already in the host's image cache: the labels are drawn again into the
\* images they had, so the number of images does not grow.
C13_NoImageLeak ==
    [][(streak >= 1 /\ streak' = 2) =>
         Cardinality(DOMAIN hostImages'[map]) <= Cardinality(DOMAIN hostImages[map])]_vars

\* C14: when the host rejects a registry call for one sub-layer during update(), every
\* other sub-layer whose flag is set has its source and its layer on the host when
\* update() ends.
C14_SubLayersIndependent ==
    [][\A k \in KindSet :
         (UpdateRejected(k) /\ result' = "HostError") =>
             \A j \in KindSet \ {k} : Show(j) => /\ layerIDs'[j] \in DOMAIN hostSources'[map]
                                                /\ layerIDs'[j] \in DOMAIN hostLayers'[map]]_vars

\* C15: with an interval unit that is neither 'd' nor 'm' computeGrid throws, and attach,
\* update, setBounds and setInterval then all throw, the unsupported-unit error whenever
\* they get as far as the unit check, without any change to the sources, layers and
\* images of any host.
C15_UnsupportedUnitFailsFirst ==
    [][(/\ intervalUnit' \notin {"d", "m"}
        /\ \/ \E m \in Hosts \cup {NoMap} : AddTo(m)
           \/ Update
           \/ \E b \in BoundsChoices : SetBounds(b)
           \/ \E a \in IntervalArgs : SetInterval(a[1], a[2]))
       => /\ ComputeGrid(bounds', interval', intervalUnit').thrown # "none"
          /\ result' # "ok"
          /\ (bounds' # Null /\ ~AddTo(NoMap)) => result' = "UnsupportedUnit"
          /\ UNCHANGED <<hostSources, hostLayers, hostImages>>]_vars

\* a call threw the unsupported-unit error on an attached controller whose sub-layers are
\* on the host
C15_Witness ==
    /\ result = "UnsupportedUnit" /\ intervalUnit = "x" /\ phase = "Attached" /\ map # NoMap
    /\ layerIDs # Null /\ layerIDs.border \in DOMAIN hostSources[map]

\* C16: a call of the label formatter with a precision tag other than degree, minute and
\* second ends in an error and returns no label text.
C16_InvalidTagFails ==
    (ret # Null /\ call.labelFormat \notin {"degree", "minute", "second"}) =>
        ret.thrown # "none"

\* a Number of degrees in model units, to the nearest unit: Math.round(x * UnitsPerDegree)
NearestUnit(x) == MathFloor(NumberAdd(NumberMul(x, NumberOf(UnitsPerDegree, 1)), NumberOf(1, 2)))

\* grid lines with every coordinate in model units
UnitLines(lines) ==
    [k \in 1..Len(lines) |->
        << <<NearestUnit(lines[k][1][1]), NearestUnit(lines[k][1][2])>>,
           <<NearestUnit(lines[k][2][1]), NearestUnit(lines[k][2][2])>> >>]

\* computeGrid has returned normally from a call in degree mode
DegreeGridReturned == ret # Null /\ ret.thrown = "none" /\ intervalUnit = "d"

\* the fixed-point computeGrid of the controller's operations gives the lines of Number
\* arithmetic on the bounds and intervals those operations use
FixedPointAgrees ==
    ret # Null /\ bounds \in BoundsChoices /\ <<interval, intervalUnit>> \in IntervalArgs =>
        LET g == ComputeGrid(bounds, interval, intervalUnit)
        IN  /\ ret.thrown = g.thrown
            /\ UnitLines(ret.value.lngLines) = g.lngLines
            /\ UnitLines(ret.value.latLines) = g.latLines

\* floor(hi / step) - ceil(lo / step) + 1 when that is >= 0, else 0
LineCount(lo, hi, step) ==
    LET c == MathFloor(NumberDiv(hi, step)) - MathCeil(NumberDiv(lo, step)) + 1
    IN  IF c >= 0 THEN c ELSE 0

\* C17: in degree mode, for bounds with west <= east and south <= north and an interval > 0,
\* computeGrid returns floor(east/interval) - ceil(west/interval) + 1 longitude lines when
\* that value is >= 0 and none otherwise, and the latitude lines follow the same formula
\* with south and north.
C17_DegreeLineCount ==
    DegreeGridReturned =>
        /\ Len(ret.value.lngLines) =
               LineCount(CoordNumber(bounds.west), CoordNumber(bounds.east), IntervalNumber(interval))
        /\ Len(ret.value.latLines) =
               LineCount(CoordNumber(bounds.south), CoordNumber(bounds.north), IntervalNumber(interval))

\* the multiples of step in [lo, hi], ascending (all in model units)
Multiples(lo, hi, step) ==
    LET first == CeilDiv(lo, step)
        last == FloorDiv(hi, step)
    IN  [k \in 1..(IF last >= first THEN last - first + 1 ELSE 0) |-> (first + k - 1) * step]

\* x < y
NumberLess(x, y) == ~NumberLeq(y, x)

\* C18: in degree mode computeGrid emits one longitude line for every multiple of the
\* interval in [west, east] and no other, each the segment [[lng, south], [lng, north]],
\* and one latitude line for every multiple in [south, north], each [[west, lat],
\* [east, lat]]; both sequences are in strictly ascending coordinate order.
C18_OneLinePerMultiple ==
    DegreeGridReturned =>
        LET step == (interval * UnitsPerDegree) \div IntervalDen
            xs == Multiples(bounds.west, bounds.east, step)
            ys == Multiples(bounds.south, bounds.north, step)
            lng == ret.value.lngLines
            lat == ret.value.latLines
        IN  /\ UnitLines(lng) = [k \in 1..Len(xs) |-> << <<xs[k], bounds.south>>, <<xs[k], bounds.north>> >>]
            /\ UnitLines(lat) = [k \in 1..Len(ys) |-> << <<bounds.west, ys[k]>>, <<bounds.east, ys[k]>> >>]
            /\ \A k \in 1..Len(lng) : lng[k][1][1] = lng[k][2][1]
            /\ \A k \in 1..Len(lat) : lat[k][1][2] = lat[k][2][2]
            /\ \A k \in 1..(Len(lng) - 1) : NumberLess(lng[k][1][1], lng[k + 1][1][1])
            /\ \A k \in 1..(Len(lat) - 1) : NumberLess(lat[k][1][2], lat[k + 1][1][2])

\* C19: for the same bounds, the grid lines of arc-minute mode with interval k are the grid
\* lines of degree mode with interval k/60 degrees: as many lines, the same coordinates
\* (to the nearest half arc-second), in the same order; coordinates are whole arc-minutes.
C19_MinuteModeIsDegreeMode ==
    ret # Null /\ ret.thrown = "none" /\ intervalUnit = "m" /\ interval % IntervalDen = 0 =>
        LET d == NumberComputeGrid(bounds, interval \div IntervalDen, "d")
        IN  /\ UnitLines(ret.value.lngLines) = UnitLines(d.lngLines)
            /\ UnitLines(ret.value.latLines) = UnitLines(d.latLines)

\* computeGrid returns normally with no longitude line and no latitude line
NoGridLines(b, iv, unit) ==
    LET g == ComputeGrid(b, iv, unit)
    IN  g.thrown = "none" /\ Len(g.lngLines) = 0 /\ Len(g.latLines) = 0

\* the closed ring west-south, east-south, east-north, west-north, west-south as one line
BoundsRing(b) ==
    [type |-> "FeatureCollection",
     features |-> << [type |-> "Feature", properties |-> <<>>,
                      geometry |-> [type |-> "LineString",
                                    coordinates |-> << <<b.west, b.south>>, <<b.east, b.south>>,
                                                       <<b.east, b.north>>, <<b.west, b.north>>,
                                                       <<b.west, b.south>> >>]] >>]

\* C20: when computeGrid returns no longitude and no latitude line, attach to a host and
\* update on a host still return normally: the border source holds the ring of the bounds,
\* the enabled grid, tick and label sources hold a feature collection without features,
\* and every enabled sub-layer has its source and its layer on the host.
C20_EmptyGridStillRenders ==
    [][/\ (\E h \in Hosts : AddTo(h)) \/ (map # NoMap /\ Update)
       /\ NoGridLines(bounds, interval, intervalUnit)
       => /\ result' = "ok"
          /\ \A k \in KindSet : Show(k) => /\ layerIDs'[k] \in DOMAIN hostSources'[map']
                                           /\ layerIDs'[k] \in DOMAIN hostLayers'[map']
          /\ showBorder => hostSources'[map'][layerIDs'.border] = BoundsRing(bounds)
          /\ \A k \in {"grid", "tick", "label"} :
                Show(k) => hostSources'[map'][layerIDs'[k]] = [type |-> "FeatureCollection", features |-> <<>>]]_vars

\* an update has returned on a host with all four sub-layers enabled and a grid without
\* lines: three sources without features and the ring
C20_Witness ==
    /\ map # NoMap /\ result = "ok" /\ streak >= 1
    /\ showGrid /\ showTick /\ showBorder /\ showLabel
    /\ NoGridLines(bounds, interval, intervalUnit)
    /\ hostSources[map][layerIDs.grid].features = <<>>
    /\ hostSources[map][layerIDs.tick].features = <<>>
    /\ hostSources[map][layerIDs.label].features = <<>>
    /\ Len(hostSources[map][layerIDs.border].features) = 1

\* the length of the interval in model units, by unit
StepUnits(iv, unit) ==
    IF unit = "d" THEN (iv * UnitsPerDegree) \div IntervalDen ELSE (iv * UnitsPerMinute) \div IntervalDen

\* C21: for degenerate bounds computeGrid returns at most one line on the degenerate axis,
\* in degree and in arc-minute mode: with west = east at most one longitude line, and one
\* exactly when west is a multiple of the interval; with south = north the same for the
\* latitude lines.
C21_DegenerateBounds ==
    ret # Null /\ ret.thrown = "none" =>
        LET step == StepUnits(interval, intervalUnit)
            lng == Len(ret.value.lngLines)
            lat == Len(ret.value.latLines)
        IN  /\ bounds.west = bounds.east =>
                  lng = (IF bounds.west % step = 0 THEN 1 ELSE 0)
            /\ bounds.south = bounds.north =>
                  lat = (IF bounds.south % step = 0 THEN 1 ELSE 0)

\* the fixed-point createlabelFormatter of the controller's operations gives the label of
\* Number arithmetic on whole degrees, the coordinates those operations label
FixedPointFormatAgrees ==
    ret # Null /\ call.num % UnitsPerDegree = 0 =>
        ret.value = CreatelabelFormatter(call.num, call.isLng, call.labelFormat)

MaxField == 360

\* the number a field of a label shows: the n that is written as this text
ParseField(text) == CHOOSE n \in 0..MaxField : ToString(n) = text

\* the coordinate, in model units, that a label of second precision reads as:
\* sign * (deg + min/60 + sec/3600), the sign taken from the hemisphere tag
ParseLabel(label) ==
    LET sign == IF label[7] \in {"W", "S"} THEN -1 ELSE 1
    IN  sign * (ParseField(label[1]) * UnitsPerDegree + ParseField(label[3]) * UnitsPerMinute
                + ParseField(label[5]) * UnitsPerSecond)

\* C23: for every coordinate value, the degrees, minutes, seconds and hemisphere tag parsed
\* out of the label of second precision and recombined as sign * (deg + min/60 + sec/3600)
\* give a value within 1/3600 degree of the original.
C23_LabelRoundTrip ==
    ret # Null /\ call.labelFormat = "second" =>
        /\ Len(ret.value) = 7
        /\ Abs(ParseLabel(ret.value) - call.num) <= UnitsPerSecond

\* a label of second precision of a negative value with minutes and seconds has been
\* formatted and reads back as that value
C23_Witness ==
    /\ ret # Null /\ call.labelFormat = "second" /\ call.num = -DMS(120, 43, 96)
    /\ ParseLabel(ret.value) = call.num

\* the screen offset of tick k of a returned collection: from the projected end of the
\* grid line to the projected outer end of the tick
TickOffset(k) ==
    LET c == ret.value.features[k].geometry.coordinates
        b == hostBearing[call.map]
        p == Project(b, c[1])
        q == Project(b, c[2])
    IN  << q[1] - p[1], q[2] - p[2] >>

\* the tick offsets of a returned collection have length t, are opposite at the two ends of
\* every line, the longitude ticks are perpendicular to the latitude ticks, and at bearing
\* 0 they are (0,+t) and (0,-t) on longitude lines, (-t,0) and (+t,0) on latitude lines
TickGeometry(t) ==
    LET n == Len(call.lngLines) + Len(call.latLines)
        lng == 1..Len(call.lngLines)
        lat == (Len(call.lngLines) + 1)..n
    IN  /\ Len(ret.value.features) = 2 * n
        /\ \A k \in 1..n :
              LET o1 == TickOffset(2 * k - 1)
                  o2 == TickOffset(2 * k)
              IN  /\ o1 = << -o2[1], -o2[2] >>
                  /\ o1[1] * o1[1] + o1[2] * o1[2] = t * t
                  /\ ret.value.features[2 * k - 1].geometry.coordinates[1] =
                         (IF k \in lng THEN call.lngLines[k] ELSE call.latLines[k - Len(call.lngLines)])[1]
                  /\ ret.value.features[2 * k].geometry.coordinates[1] =
                         (IF k \in lng THEN call.lngLines[k] ELSE call.latLines[k - Len(call.lngLines)])[2]
        /\ \A i \in lng, j \in lat :
              LET a == TickOffset(2 * i - 1)
                  c == TickOffset(2 * j - 1)
              IN  a[1] * c[1] + a[2] * c[2] = 0
        /\ hostBearing[call.map] = 0 =>
              /\ \A i \in lng : TickOffset(2 * i - 1) = <<0, t>> /\ TickOffset(2 * i) = <<0, -t>>
              /\ \A j \in lat : TickOffset(2 * j - 1) = <<-t, 0>> /\ TickOffset(2 * j) = <<t, 0>>

\* C24: for every bearing the offsets at the two ends of a grid line are exact
\* negatives of each other, each has the pixel length of the configured tickLength, the
\* longitude-tick offset is perpendicular to the latitude-tick offset, and at bearing 0
\* they are (0,+t) / (0,-t) for longitude lines and (-t,0) / (+t,0) for latitude lines.
C24_TickOffsetsConfigured == ret # Null => TickGeometry(call.tickLen)

\* with the length the code uses (5 pixels for a tickLength of 0) the tick geometry holds
\* for every bearing and tickLength
TickOffsetsDefaulted == ret # Null => TickGeometry(OrDefault(call.tickLen))

\* the sources of the enabled sub-layers after the step are those computed from bounds b,
\* interval iv and unit: the ring of b, the grid lines, the ticks at the host's bearing,
\* and the label points with the icons drawn in this run
SourcesComputedFrom(b, iv, unit) ==
    LET lines == ComputeGrid(b, iv, unit)
    IN  /\ showBorder => hostSources'[map][layerIDs'.border] = BoundsRing(b)
        /\ showGrid => hostSources'[map][layerIDs'.grid] = CreateGridLinesSource(lines.lngLines, lines.latLines)
        /\ showTick => hostSources'[map][layerIDs'.tick] =
                            CreateTickLinesSource(lines.lngLines, lines.latLines, map, ThisTickLength)
        /\ showLabel => hostSources'[map][layerIDs'.label] =
                            CreateLabelPointsSource(InitLayersId(Begin(map)), lines.lngLines,
                                                    lines.latLines, ThisTickLength).data

\* C25: setBounds(b) and setInterval(i, u) called while Attached store the new values and
\* then perform a full update: when they return, the source of every enabled sub-layer is
\* what update() computes for the new configuration; the border source holds the closed
\* five-point ring of the new bounds, and the grid, tick and label sources are computed
\* from the new bounds, interval and unit.
C25_SettersStoreThenUpdate ==
    [][/\ \A b \in BoundsChoices :
             (SetBounds(b) /\ phase = "Attached" /\ result' = "ok")
                 => bounds' = b /\ SourcesComputedFrom(b, interval, intervalUnit)
       /\ \A a \in IntervalArgs :
             (SetInterval(a[1], a[2]) /\ phase = "Attached" /\ result' = "ok")
                 => /\ interval' = a[1] /\ intervalUnit' = a[2]
                    /\ SourcesComputedFrom(bounds, a[1], a[2])]_vars

\* a controller attached once with bounds whose labels read 120 degrees has had its bounds
\* set to others: border, tick and label sources are those of the new bounds
C25_Witness ==
    /\ phase = "Attached" /\ map # NoMap /\ result = "ok" /\ streak = 1 /\ pastIds = {}
    /\ showBorder /\ showTick /\ showLabel
    /\ \E i \in DOMAIN hostImages[map] :
          hostImages[map][i] = DrawLabel(CreatelabelFormatter(Deg(120), TRUE, LabelFormat))
    /\ bounds.west # Deg(120)
    /\ hostSources[map][layerIDs.border] = BoundsRing(bounds)
    /\ Len(hostSources[map][layerIDs.tick].features) = 4
    /\ \A k \in 1..Len(hostSources[map][layerIDs.label].features) :
          hostSources[map][layerIDs.label].features[k].properties.label
              # CreatelabelFormatter(Deg(120), TRUE, LabelFormat)
    /\ Len(hostSources[map][layerIDs.label].features) = 4

\* C26: when the bounds option was omitted at construction, attach to a host returns
\* normally and every enabled sub-layer has its source and its layer on that host.
C26_DefaultBoundsAttach ==
    [][\A h \in Hosts :
         (AddTo(h) /\ bounds = Null)
             => /\ result' = "ok"
                /\ layerIDs' # Null
                /\ \A k \in KindSet : Show(k) => /\ layerIDs'[k] \in DOMAIN hostSources'[h]
                                                 /\ layerIDs'[k] \in DOMAIN hostLayers'[h]]_vars

\* C27: when the grid flag is enabled, attach and update leave in the grid source one
\* LineString feature per longitude line followed by one per latitude line of computeGrid:
\* its feature count is |lngLines| + |latLines| for every bounds and interval, also when
\* exactly one of the two axes has no lines.
C27_GridFeaturePerLine ==
    [][/\ (\E h \in Hosts : AddTo(h)) \/ (map # NoMap /\ Update)
       /\ result' = "ok" /\ showGrid
       => LET lines == ComputeGrid(bounds, interval, intervalUnit)
              grid == hostSources'[map'][layerIDs'.grid]
          IN  /\ Len(grid.features) = Len(lines.lngLines) + Len(lines.latLines)
              /\ Coords(grid) = lines.lngLines \o lines.latLines]_vars

\* when both axes have lines or neither has, the grid source holds one feature per line
GridFeaturePerLineBothAxes ==
    [][/\ (\E h \in Hosts : AddTo(h)) \/ (map # NoMap /\ Update)
       /\ result' = "ok" /\ showGrid
       => LET lines == ComputeGrid(bounds, interval, intervalUnit)
              grid == hostSources'[map'][layerIDs'.grid]
          IN  (Len(lines.lngLines) = 0 <=> Len(lines.latLines) = 0)
                  => Coords(grid) = lines.lngLines \o lines.latLines]_vars

\* label feature i and tick feature i of the collections an attach or update has written:
\* the label point is the outer end of the tick, and anchor and rotate are those of the
\* end of the line the pair belongs to (nLng = number of longitude lines)
LabelMatchesTick(label, tick, i, nLng) ==
    /\ label.features[i].geometry.coordinates = tick.features[i].geometry.coordinates[2]
    /\ label.features[i].properties.anchor =
           (IF i <= 2 * nLng THEN (IF i % 2 = 1 THEN "top" ELSE "bottom")
            ELSE (IF i % 2 = 1 THEN "bottom" ELSE "top"))
    /\ label.features[i].properties.rotate = (IF i <= 2 * nLng THEN 0 ELSE -90)

\* the tick and label collections correspond feature by feature and follow the lines in
\* order; when counted, they also hold two features per longitude line, then two per
\* latitude line
LabelsFollowTicks(lines, tick, label, counted) ==
    LET nLng == Len(lines.lngLines)
    IN  /\ Len(label.features) = Len(tick.features)
        /\ counted => Len(tick.features) = 2 * nLng + 2 * Len(lines.latLines)
        /\ \A i \in 1..Len(label.features) : LabelMatchesTick(label, tick, i, nLng)
        /\ \A i \in 1..Len(tick.features) :
              tick.features[i].geometry.coordinates[1] =
                  (lines.lngLines \o lines.latLines)[(i + 1) \div 2][2 - (i % 2)]

BothAxesOrNone(lines) == Len(lines.lngLines) = 0 <=> Len(lines.latLines) = 0

\* C28: in one update() with both tick and label enabled, the label collection and the
\* tick collection have the same number of features in the same order, two per longitude
\* line, then two per latitude line; the i-th label point is the outer endpoint of the
\* i-th tick segment; the anchors are top/bottom for the bottom/top ends of longitude
\* lines and bottom/top for the left/right ends of latitude lines; rotate is 0 for
\* longitude labels and -90 for latitude labels.
C28_LabelsFollowTicks ==
    [][/\ (\E h \in Hosts : AddTo(h)) \/ (map # NoMap /\ Update)
       /\ result' = "ok" /\ showTick /\ showLabel
       => LabelsFollowTicks(ComputeGrid(bounds, interval, intervalUnit),
                            hostSources'[map'][layerIDs'.tick],
                            hostSources'[map'][layerIDs'.label], TRUE)]_vars

\* the same, with the count of two features per line stated only for grids that have
\* lines on both axes or on neither
LabelsFollowTicksBothAxes ==
    [][/\ (\E h \in Hosts : AddTo(h)) \/ (map # NoMap /\ Update)
       /\ result' = "ok" /\ showTick /\ showLabel
       => LabelsFollowTicks(ComputeGrid(bounds, interval, intervalUnit),
                            hostSources'[map'][layerIDs'.tick],
                            hostSources'[map'][layerIDs'.label],
                            BothAxesOrNone(ComputeGrid(bounds, interval, intervalUnit)))]_vars

\* C29: in the application shell, in arc-minute mode at most one delayed update() is
\* pending at any time and a move notification that arrives while one is pending sets no
\* further timeout and calls no update(); in degree mode every move notification handled
\* with a controller calls update() exactly once within the handler; and update() is
\* never called before the load handler has created the controller.
C29_ShellDebounce ==
    [][/\ shell.timers <= 1 /\ shell'.timers <= 1
       /\ (OnMove /\ shell.glayer /\ intervalUnit = "m" /\ shell.timers = 1)
              => /\ shell'.timers = 1 /\ shell'.ran = 0 /\ shell'.absorbed
                 /\ UNCHANGED <<hostSources, hostLayers, hostImages, id>>
       /\ (OnMove /\ shell.glayer /\ intervalUnit = "m" /\ shell.timers = 0)
              => shell'.timers = 1 /\ shell'.ran = 0
       /\ (OnMove /\ shell.glayer /\ intervalUnit = "d")
              => shell'.ran = 1 /\ shell'.timers = 0 /\ streak' >= 1
       /\ (OnMove \/ OnTimeout) /\ shell'.ran > 0 => shell.glayer
       /\ ~shell.glayer => UNCHANGED <<hostSources, hostLayers, hostImages>> \/ OnLoad]_vars

\* in arc-minute mode a timeout is pending, a further move was notified and handled
\* while it was pending, and an earlier timeout has already run its update()
C29_Witness ==
    /\ shell # Null /\ shell.glayer /\ intervalUnit = "m"
    /\ shell.timers = 1 /\ ~shell.flag /\ shell.event = "none" /\ shell.stale /\ shell.absorbed
    /\ hostBearing["h1"] = 180
    /\ Len(hostSources["h1"][layerIDs.tick].features) = 14
    /\ id > 19

\* C30: in the application shell every move notification received after the controller
\* exists is eventually followed by an update() call that runs after that notification:
\* in arc-minute mode when the timer fires, in degree mode within the handler.
C30_MoveEventuallyUpdated ==
    (shell # Null /\ shell.stale) ~> (shell # Null /\ ~shell.stale /\ shell.ran = 1)

\* a timeout set by a move has run update(): the tick source is that of the bearing the
\* last move left, and flag is true again
C30_Witness ==
    /\ shell # Null /\ shell.glayer /\ intervalUnit = "m"
    /\ shell.ran = 1 /\ ~shell.stale /\ shell.flag /\ shell.timers = 0 /\ result = "ok"
    /\ hostBearing["h1"] = 90
    /\ LET lines == ComputeGrid(bounds, interval, intervalUnit)
       IN  /\ Len(lines.lngLines) = 4 /\ Len(lines.latLines) = 3
           /\ hostSources["h1"][layerIDs.tick] =
                  CreateTickLinesSource(lines.lngLines, lines.latLines, "h1", ShellTickLength)

\* whenever a handler or a timeout callback is due, the id counter still admits its
\* update(): the steps the scheduling conditions ask for can be taken
HandlersCanRun ==
    (shell # Null /\ (shell.event # "none" \/ shell.timers > 0)) => id <= IdLimit

\* C31: the controller never asks the host to remove a source that a registered layer
\* still uses: in update() with the flag disabled and in detach() the layer is removed
\* before its source, so the host never answers a removeSource with its source-in-use
\* error, and no layer is left on a host without its source.
C31_LayerBeforeSource ==
    /\ "SourceInUse" \notin fired
    /\ \A h \in Hosts : \A l \in DOMAIN hostLayers[h] : hostLayers[h][l].source \in DOMAIN hostSources[h]

\* detach alone never meets the source-in-use error: removeFromMap removes the layer first
DetachLayerBeforeSource == [][RemoveFromMap => "SourceInUse" \notin fired']_vars

\* C32: for every coordinate value, the minutes field and the seconds field of the
\* formatted label are whole numbers in 0..59.
C32_FieldsBelowSixty ==
    (ret # Null /\ ret.thrown = "none") =>
        /\ Len(ret.value) >= 5 => ParseField(ret.value[3]) \in 0..59
        /\ Len(ret.value) >= 7 => ParseField(ret.value[5]) \in 0..59

\* the minutes field alone is always in 0..59
MinutesBelowSixty ==
    (ret # Null /\ ret.thrown = "none" /\ Len(ret.value) >= 5) => ParseField(ret.value[3]) \in 0..59

\* C33: at any time the sources and layers the controller registered exist on at most
\* one host, the one it is bound to: after attach(host2) while Attached to host1 no source
\* and no layer of the controller is left on host1.
C33_OneHostOnly ==
    \A h \in Hosts : h # map => hostSources[h] = <<>> /\ hostLayers[h] = <<>>

\* C34: when setInterval(interval, unit) fails because the unit is unsupported, the stored
\* interval and unit keep the values they had before the call.
C34_FailedSetIntervalKeepsConfig ==
    [][\A a \in IntervalArgs :
         (SetInterval(a[1], a[2]) /\ result' = "UnsupportedUnit")
             => interval' = interval /\ intervalUnit' = intervalUnit]_vars

\* an update() that follows a setInterval which failed on its unit fails as well
UpdateAfterFailedSetIntervalFails ==
    [][(Update /\ result = "UnsupportedUnit" /\ bounds # Null) => result' = "UnsupportedUnit"]_vars

\* what a label feature shows: text, rotate and anchor
Shown(fc) ==
    [k \in 1..Len(fc.features) |->
        [label |-> fc.features[k].properties.label, rotate |-> fc.features[k].properties.rotate,
         anchor |-> fc.features[k].properties.anchor]]

\* C35: for the same grid lines, projection and tickLength, GraticuleLayer.ts at bearing 0
\* and the fixed-pixel-offset class of util.ts produce the same tick segments in the same
\* order and label points with the same coordinates, label text, rotate and anchor; and
\* for every configuration the two return the same grid lines and the same border ring.
C35_VariantAgreesAtBearingZero ==
    ret # Null =>
        /\ ret.layer.lines = ret.util.lines
        /\ ret.layer.border = ret.util.border
        /\ hostBearing[call.map] = 0 =>
              /\ ret.layer.tick = ret.util.tick
              /\ Coords(ret.layer.label) = Coords(ret.util.label)
              /\ Shown(ret.layer.label) = Shown(ret.util.label)

\* both were called at bearing 0 on a grid of three longitude and three latitude lines
\* with a tickLen of 10: twelve ticks and twelve labels each, the first tick 10 pixels
\* below the south end of the first meridian
C35_Witness ==
    /\ ret # Null /\ hostBearing[call.map] = 0 /\ call.tickLen = 10
    /\ Len(ret.layer.lines.lngLines) = 3 /\ Len(ret.layer.lines.latLines) = 3
    /\ Len(ret.util.tick.features) = 12 /\ Len(ret.util.label.features) = 12
    /\ ret.util.tick.features[1].geometry.coordinates = << <<Deg(120), Deg(30)>>, <<Deg(120), Deg(30) - 10>> >>
    /\ ret.layer.tick.features[1] = ret.util.tick.features[1]

\* at a bearing other than 0 the two differ wherever there are ticks
VariantDiffersWhenRotated ==
    (ret # Null /\ hostBearing[call.map] # 0 /\ Len(ret.layer.tick.features) > 0)
        => ret.layer.tick # ret.util.tick

====
